---- MODULE Spec2Model ----
(***************************************************************************)
(* A model of the nREPL client of Clojure-Sublimed (src/cs_main.py): the   *)
(* connection object, the registry of evaluation records, the handshake    *)
(* driven by the reader thread, and the routing of decoded responses.      *)
(*                                                                         *)
(* Python values.  A value that may be None or a string is a sequence of   *)
(* tokens: None is the empty sequence, a string is a non-empty sequence    *)
(* (the empty string is the one-token sequence <<"">>), and concatenation  *)
(* of strings is concatenation of sequences.  An integer key that may be   *)
(* missing from a message is 0 when missing (identifiers are positive).    *)
(***************************************************************************)
EXTENDS Integers, Sequences, FiniteSets, TLC

\* ------------------------------------------------------------------ bounds
\* records created in one behaviour (Eval.next_id runs FirstId .. FirstId + MaxEvals)
MaxEvals == 1
\* responses under a handshake identifier, other than the expected answers,
\* that the server sends on one socket
MaxStray == 1
\* connect() calls in one behaviour
MaxConnects == 1
\* threads that run a record constructor at the same time
MaxThreads == 2
\* record constructors started in one behaviour of the constructor's steps
MaxCreated == 3

\* reconnect commands in one behaviour
MaxReconnects == 1
\* threads started on run_loop in one behaviour
MaxTickers == 2
\* the longest list of progress phases a settings change configures
MaxPhases == 3
\* pieces in which socket.sendall writes one encoded request
MaxChunks == 2

\* the largest n of a SocketIO.read(n)
MaxRead == 3
\* bytes in one chunk returned by socket.recv
MaxChunkLen == 3
\* bytes received on one socket
MaxBytes == 6
\* requests the JVM handshake writes on one socket
MaxJvmOut == 4
\* records added to the registry, taken operation by operation
MaxAdded == 3

\* ------------------------------------------------------- program constants
\* Eval.next_id: the first identifier given to a record
FirstId == 10

\* ------------------------------------------------------------ python values
None == <<>>
Str(t) == <<t>>
EmptyStr == <<"">>
\* python truthiness of an optional string
Truthy(x) == x # None /\ x # EmptyStr

\* Profile
CLOJURE == "clojure"
SHADOW_CLJS == "shadow-cljs"

\* the views of the editor; 0 stands for "no view" (StatusEval.view = None)
Views == {1}
NoView == 0

\* ---------------------------------------------------------------- messages
\* A request written to the socket (the dict handed to Connection.send); only
\* the keys the handshake and the registry read are kept.
Req(op, id, session, code, interrupt_id) ==
    [op |-> op, id |-> id, session |-> session, code |-> code,
     interrupt_id |-> interrupt_id]

\* A decoded response.  A key missing from the dict is None (0 for id,
\* time_taken; {} for status and for the truncated-keys list; FALSE for loc,
\* which stands for the line and column keys together).
Msg0 ==
    [id |-> 0, new_session |-> None, status |-> {}, value |-> None,
     time_taken |-> 0, root_ex_class |-> None, root_ex_msg |-> None,
     root_ex_data |-> None, loc |-> FALSE, source |-> None, trace |-> None,
     root_ex |-> None, ex |-> None, ns |-> None, info |-> None,
     truncated |-> {}]

\* --------------------------------------------------------- evaluation records
\* Eval.__init__ / StatusEval.__init__ followed by update("pending", None)
NewEval(id, view) ==
    [id |-> id, view |-> view, status |-> "pending", value |-> None,
     session |-> None, trace |-> None, time_taken |-> 0]

\* Eval.update / StatusEval.update: the fields the registry reads (the regions
\* and status-bar texts drawn from them belong to the editor)
update(e, status, value, time_taken) ==
    [e EXCEPT !.status = status, !.value = value, !.time_taken = time_taken]

\* a dict without one key
Without(f, k) == [x \in DOMAIN f \ {k} |-> f[x]]
\* a dict with one key set
With(f, k, v) == [x \in DOMAIN f \cup {k} |-> IF x = k THEN v ELSE f[x]]
NoEvals == [x \in {} |-> None]

\* ------------------------------------------------------------- Connection
\* Connection.send: the request is written to the socket.  out holds what the
\* current step has written; hs holds every request with a handshake
\* identifier (one below Eval.next_id's first value) written to this socket;
\* ints holds the records an interrupt request has been written for.
send(c, msg) ==
    [c EXCEPT !.out = Append(@, msg),
              !.hs = IF msg.id \in 1 .. (FirstId - 1) THEN Append(@, msg) ELSE @,
              !.ints = IF msg.op = "interrupt" THEN @ \cup {msg.interrupt_id} ELSE @]

\* the connection at the start of a step: nothing written yet
Fresh(c) == [c EXCEPT !.out = <<>>]

\* Connection.set_status
set_status(c, status) == [c EXCEPT !.status = status]

\* Connection.ready
ready(c) == c.socket # 0 /\ Truthy(c.session)

\* Connection.add_eval
add_eval(c, e) ==
    [c EXCEPT !.evals = With(@, e.id, e),
              !.evals_by_view = IF e.view # NoView
                                THEN [@ EXCEPT ![e.view] = @ \cup {e.id}]
                                ELSE @]

\* erase_eval without the test of the status: an interrupt for every record
\* that has a session
erase_eval_any_status(c, id) ==
    LET e == c.evals[id]
        c1 == [c EXCEPT !.evals = Without(@, id),
                        !.evals_by_view = IF e.view # NoView
                                          THEN [@ EXCEPT ![e.view] = @ \ {id}]
                                          ELSE @]
    IN IF Truthy(e.session)
       THEN send(c1, Req("interrupt", 0, e.session, None, id))
       ELSE c1

\* an erase_eval that leaves the record in the index of its view
erase_eval_keeps_view(c, id) ==
    LET e == c.evals[id]
        c1 == [c EXCEPT !.evals = Without(@, id)]
    IN IF e.status = "pending" /\ Truthy(e.session)
       THEN send(c1, Req("interrupt", 0, e.session, None, id))
       ELSE c1

\* Connection.erase_eval: the record leaves both indexes, then an interrupt is
\* sent when it was still pending under a session of its own
erase_eval(c, id) ==
    LET e == c.evals[id]
        c1 == [c EXCEPT !.evals = Without(@, id),
                        !.evals_by_view = IF e.view # NoView
                                          THEN [@ EXCEPT ![e.view] = @ \ {id}]
                                          ELSE @]
    IN IF e.status = "pending" /\ Truthy(e.session)
       THEN send(c1, Req("interrupt", 0, e.session, None, id))
       ELSE c1

\* Connection.reset: socket, reader, session and status cleared, every record
\* erased from the views and both indexes emptied; nothing is sent
reset(c) ==
    [c EXCEPT !.socket = 0, !.session = None, !.status = None,
              !.evals = NoEvals, !.evals_by_view = [v \in Views |-> {}]]

\* Connection.disconnect
disconnect(c) == IF c.socket # 0 THEN reset(c) ELSE c

\* Connection.erase_evals: the records among ids (those the predicate picks
\* from the snapshot of the index) are erased one after the other, in the
\* order of the dict, which is the order of their identifiers
RECURSIVE erase_evals(_, _)
erase_evals(c, ids) ==
    IF ids = {} THEN c
    ELSE LET id == CHOOSE x \in ids : \A y \in ids : x <= y
         IN erase_evals(erase_eval(c, id), ids \ {id})

\* ------------------------------------------------------------------ state
VARIABLES
    conn,          \* the Connection object, with the requests written to its socket
    next_id,       \* Eval.next_id
    wire,          \* decoded responses the reader thread has not handled yet
    reader,        \* the reader thread: "none", "start", "loop" or "dead"
    eval_shared,   \* the setting eval_shared (None when not configured)
    connects,      \* connect() calls so far
    server,        \* what the server has answered on this socket (history)
    rd,            \* the reader thread inside handle_value: position and locals
    caller,        \* the command thread inside erase_eval or disconnect
    ctor,          \* each thread inside Eval.__init__: position and locals
    created,       \* the identifiers assigned to records, in assignment order
    prog,          \* the ProgressThread object and the threads running run_loop
    sock,          \* the chunks written to the socket, in the order of the writes
    sender,        \* each thread inside Connection.send: what is left to write
    old,           \* the reader thread of the connection before a reconnect
    io,            \* the SocketIO object of the read loop and the bytes it has passed on
    jvm            \* the ConnectionNreplJvm object, its server and the response in hand

\* the positions of the threads inside the operations taken statement by
\* statement; they stay at rest while whole handlers are taken as one step
fine == <<rd, caller, ctor, created>>

\* the socket writes taken chunk by chunk, the reader thread a reconnect leaves
\* behind, the byte reader and the JVM connection; they stay at rest elsewhere
more == <<sock, sender, old, io, jvm>>

vars == <<conn, next_id, wire, reader, eval_shared, connects, server, fine,
          more, prog>>

\* --------------------------------------------------------------- handshake
StatusCloning == Str("Cloning session")
StatusUploading == Str("Uploading middlewares")
StatusAdding == Str("Adding middlewares")
\* _status_connected
StatusConnected == Str("connected")

\* get_shadow_repl_init_cmd
get_shadow_repl_init_cmd(build) ==
    IF build = "node-repl" THEN Str("(shadow.cljs.devtools.api/node-repl)")
    ELSE IF build = "browser-repl" THEN Str("(shadow.cljs.devtools.api/browser-repl)")
    ELSE <<"(shadow.cljs.devtools.api/repl ", build, ")">>

\* the file uploaded at step 2 and the add-middleware request of step 3
MiddlewareSource == Str("cs_middleware.clj")

\* What a handler returns: the connection as it leaves it, whether it returned
\* True (claimed the message), and whether it raised.
Ret(c, claimed) == [c |-> c, claimed |-> claimed, err |-> FALSE]
Raise(c) == [c |-> c, claimed |-> FALSE, err |-> TRUE]

\* the add-middleware request always under identifier 3
AddMiddlewareId_always3(shared) == 3

\* the identifier of the add-middleware request
AddMiddlewareId(shared) == IF Truthy(shared) THEN 3 ELSE 4

\* handle_connect without the test of the profile: every connection takes the
\* steps of the default profile
handle_connect_any_profile(c, msg) ==
    IF msg.id = 1 /\ msg.new_session # None
    THEN Ret(set_status(send([c EXCEPT !.session = msg.new_session],
                             Req("load-file", 2, msg.new_session,
                                 MiddlewareSource, 0)),
                        StatusUploading), TRUE)
    ELSE IF msg.id = 2 /\ msg.status = {"done"}
    THEN Ret(set_status(send(c, Req("add-middleware", AddMiddlewareId(eval_shared),
                                    c.session, None, 0)),
                        StatusAdding), TRUE)
    ELSE IF msg.id = 3 /\ msg.status = {"done"}
    THEN Ret(send(c, Req("eval", 4, c.session, eval_shared, 0)), FALSE)
    ELSE IF msg.id = 4 /\ msg.status = {"done"}
    THEN Ret(set_status(c, StatusConnected), TRUE)
    ELSE Ret(c, FALSE)

\* handle_connect
handle_connect(c, msg) ==
    IF c.profile = SHADOW_CLJS /\ msg.id = 1 /\ msg.new_session # None
    THEN Ret(send([c EXCEPT !.session = msg.new_session],
                  Req("eval", 2, msg.new_session,
                      get_shadow_repl_init_cmd(c.cljs_build), 0)), TRUE)
    ELSE IF c.profile = SHADOW_CLJS /\ msg.id = 2 /\ msg.status = {"done"}
    THEN Ret(set_status(c, StatusConnected), TRUE)
    ELSE IF msg.id = 1 /\ msg.new_session # None
    THEN Ret(set_status(send([c EXCEPT !.session = msg.new_session],
                             Req("load-file", 2, msg.new_session,
                                 MiddlewareSource, 0)),
                        StatusUploading), TRUE)
    ELSE IF msg.id = 2 /\ msg.status = {"done"}
    THEN Ret(set_status(send(c, Req("add-middleware", AddMiddlewareId(eval_shared),
                                    c.session, None, 0)),
                        StatusAdding), TRUE)
    ELSE IF msg.id = 3 /\ msg.status = {"done"}
    THEN Ret(send(c, Req("eval", 4, c.session, eval_shared, 0)), FALSE)
    ELSE IF msg.id = 4 /\ msg.status = {"done"}
    THEN Ret(set_status(c, StatusConnected), TRUE)
    ELSE Ret(c, FALSE)

\* ----------------------------------------------------------------- routing
\* msg["id"] in conn.evals
Known(c, msg) == msg.id # 0 /\ msg.id \in DOMAIN c.evals

\* conn.evals[id] replaced by the record as a handler leaves it
SetEval(c, e) == [c EXCEPT !.evals = With(@, e.id, e)]

\* a handle_new_session that also takes the token as the connection's own
handle_new_session_primary(c, msg) ==
    IF msg.new_session # None /\ Known(c, msg)
    THEN Ret([SetEval(c, [c.evals[msg.id] EXCEPT !.session = msg.new_session])
                 EXCEPT !.session = msg.new_session], TRUE)
    ELSE Ret(c, FALSE)

\* handle_new_session
handle_new_session(c, msg) ==
    IF msg.new_session # None /\ Known(c, msg)
    THEN Ret(SetEval(c, [c.evals[msg.id] EXCEPT !.session = msg.new_session]), TRUE)
    ELSE Ret(c, FALSE)

\* handle_value without the elapsed time of the message
handle_value_no_elapsed(c, msg) ==
    IF msg.value # None /\ Known(c, msg)
    THEN Ret(SetEval(c, update(c.evals[msg.id], "success", msg.value, 0)), TRUE)
    ELSE Ret(c, FALSE)

\* handle_value
handle_value(c, msg) ==
    IF msg.value # None /\ Known(c, msg)
    THEN Ret(SetEval(c, update(c.evals[msg.id], "success", msg.value,
                               msg.time_taken)), TRUE)
    ELSE Ret(c, FALSE)

\* the text of a structured exception: class, message, extra data, location
ExceptionText(e, msg) ==
    (msg.root_ex_class \o <<": ">> \o msg.root_ex_msg)
    \o (IF Truthy(msg.root_ex_data) THEN <<" ">> \o msg.root_ex_data ELSE <<>>)
    \o (IF msg.loc /\ e.view # NoView THEN <<>>
        ELSE IF msg.loc /\ Truthy(msg.source)
        THEN <<" (">> \o msg.source \o <<":line:column)">>
        ELSE <<>>)

\* handle_exception with the raw ex tested before the raw root-ex
handle_exception_ex_first(c, msg) ==
    IF Known(c, msg)
    THEN LET e == c.evals[msg.id]
         IN IF Truthy(msg.root_ex_class) /\ Truthy(msg.root_ex_msg)
            THEN Ret(SetEval(c, update([e EXCEPT !.trace = msg.trace], "exception",
                                       ExceptionText(e, msg), 0)), TRUE)
            ELSE IF msg.ex # None
            THEN Ret(SetEval(c, update(e, "exception", msg.ex, 0)), TRUE)
            ELSE IF msg.root_ex # None
            THEN Ret(SetEval(c, update(e, "exception", msg.root_ex, 0)), TRUE)
            ELSE IF "namespace-not-found" \in msg.status
            THEN IF msg.ns = None
                 THEN Raise(c)
                 ELSE Ret(SetEval(c, update(e, "exception",
                                            <<"Namespace not found: ">> \o msg.ns, 0)),
                          FALSE)
            ELSE Ret(c, FALSE)
    ELSE Ret(c, FALSE)

\* handle_exception
handle_exception(c, msg) ==
    IF Known(c, msg)
    THEN LET e == c.evals[msg.id]
         IN IF Truthy(msg.root_ex_class) /\ Truthy(msg.root_ex_msg)
            THEN Ret(SetEval(c, update([e EXCEPT !.trace = msg.trace], "exception",
                                       ExceptionText(e, msg), 0)), TRUE)
            ELSE IF msg.root_ex # None
            THEN Ret(SetEval(c, update(e, "exception", msg.root_ex, 0)), TRUE)
            ELSE IF msg.ex # None
            THEN Ret(SetEval(c, update(e, "exception", msg.ex, 0)), TRUE)
            ELSE IF "namespace-not-found" \in msg.status
            THEN IF msg.ns = None
                 THEN Raise(c)
                 ELSE Ret(SetEval(c, update(e, "exception",
                                            <<"Namespace not found: ">> \o msg.ns, 0)),
                          FALSE)
            ELSE Ret(c, FALSE)
    ELSE Ret(c, FALSE)

\* handle_lookup: the record is updated first; formatting the phantom then
\* raises for a record without a view
handle_lookup(c, msg) ==
    IF msg.info # None /\ Known(c, msg)
    THEN LET e == c.evals[msg.id]
             c1 == SetEval(c, update(e, "lookup", None, 0))
         IN IF e.view = NoView THEN Raise(c1) ELSE Ret(c1, TRUE)
    ELSE Ret(c, FALSE)

\* handle_done
handle_done(c, msg) ==
    IF Known(c, msg) /\ "done" \in msg.status
    THEN IF c.evals[msg.id].status \notin {"success", "exception"}
         THEN Ret(erase_eval(c, msg.id), FALSE)
         ELSE Ret(c, FALSE)
    ELSE Ret(c, FALSE)

\* a truncation that appends the ellipsis twice
Truncate_twice(msg) ==
    [msg EXCEPT !.value = IF "value" \in msg.truncated THEN @ \o <<"...", "...">> ELSE @]

\* the ellipsis appended to the value of every key the message lists as truncated
Truncate(msg) ==
    [msg EXCEPT !.value = IF "value" \in msg.truncated THEN @ \o <<"...">> ELSE @]

\* the handlers tried after h1 when h1 neither claimed the message nor raised
OrElse(r, next(_, _), msg) == IF r.claimed \/ r.err THEN r ELSE next(r.c, msg)

\* msg[key] += '...' raises for a listed key the message does not hold
TruncateRaises(msg) == "value" \in msg.truncated /\ msg.value = None

\* handle_msg
handle_msg(c, msg0) ==
    LET msg == Truncate(msg0)
    IN IF TruncateRaises(msg0) THEN Raise(c) ELSE
       OrElse(OrElse(OrElse(OrElse(OrElse(handle_connect(c, msg),
           handle_new_session, msg),
           handle_value, msg),
           handle_exception, msg),
           handle_lookup, msg),
           handle_done, msg)

\* ------------------------------------------------------------------ server
\* The history kept of the server: the handshake identifiers it has answered
\* with the expected response, and how many other responses it has sent under
\* a handshake identifier (repeated, unrequested or differently marked ones).
Server0 == [answered |-> {}, stray |-> 0]

\* the expected response to a handshake request that has been sent and not yet
\* answered: new-session for the clone, a status of done alone for the others
Expected(c, srv, msg) ==
    /\ \E i \in 1 .. Len(c.hs) : c.hs[i].id = msg.id
    /\ msg.id \notin srv.answered
    /\ IF msg.id = 1 THEN msg.new_session # None
       ELSE msg.new_session = None /\ msg.status = {"done"}

Answered(c, srv, msg) ==
    IF msg.id \notin 1 .. (FirstId - 1) THEN srv
    ELSE IF Expected(c, srv, msg)
    THEN [srv EXCEPT !.answered = @ \cup {msg.id}]
    ELSE [srv EXCEPT !.stray = @ + 1]

\* ------------------------------------------------------------ reader thread
\* read_loop, up to the first read: the clone request and the first status.
\* With the socket already gone, conn.send raises AttributeError, which the
\* try block does not catch: the thread ends without the final disconnect().
ReadLoopStart ==
    /\ reader = "start"
    /\ IF conn.socket = 0
       THEN /\ reader' = "dead"
            /\ conn' = Fresh(conn)
       ELSE /\ conn' = set_status(send(Fresh(conn), Req("clone", 1, None, None, 0)),
                                  StatusCloning)
            /\ reader' = "loop"
    /\ UNCHANGED <<more, prog, next_id, wire, eval_shared, connects, server, fine>>

\* read_loop, one turn: the decoded response goes through handle_msg; an
\* exception other than OSError ends the thread where it stands
Dispatch(msg) ==
    /\ reader = "loop"
    /\ conn.socket # 0
    /\ LET r == handle_msg(Fresh(conn), msg)
       IN /\ conn' = r.c
          /\ reader' = IF r.err THEN "dead" ELSE "loop"
    /\ server' = Answered(conn, server, msg)
    /\ UNCHANGED <<more, prog, next_id, eval_shared, connects, fine>>

\* the server writes a response and the read loop handles it
Receive(msg) ==
    /\ Answered(conn, server, msg).stray <= MaxStray
    /\ wire = <<>>
    /\ Dispatch(msg)
    /\ UNCHANGED wire

\* read_loop, its end: end-of-stream or OSError, then conn.disconnect()
ReadLoopEnd ==
    /\ reader = "loop"
    /\ conn' = disconnect(Fresh(conn))
    /\ reader' = "none"
    /\ wire' = <<>>
    /\ UNCHANGED <<more, prog, next_id, eval_shared, connects, server, fine>>

\* ------------------------------------------------------------------ caller
\* connect, the socket established: the reader thread is started
Connect(profile, build) ==
    /\ conn.socket = 0
    /\ reader \in {"none", "dead"}
    /\ connects < MaxConnects
    /\ connects' = connects + 1
    /\ conn' = [conn EXCEPT !.profile = profile, !.cljs_build = build,
                            !.socket = 1, !.out = <<>>, !.hs = <<>>]
    /\ reader' = "start"
    /\ wire' = <<>>
    /\ server' = Server0
    /\ UNCHANGED <<more, prog, next_id, eval_shared, fine>>

\* a connect that starts the reader thread although the socket failed
ConnectFail_starts_reader(profile, build) ==
    /\ conn.socket = 0
    /\ reader \in {"none", "dead"}
    /\ connects < MaxConnects
    /\ connects' = connects + 1
    /\ conn' = set_status([Fresh(conn) EXCEPT !.profile = profile,
                                              !.cljs_build = build,
                                              !.socket = 0], None)
    /\ reader' = "start"
    /\ UNCHANGED <<more, prog, next_id, wire, eval_shared, server, fine>>

\* connect, the socket not established
ConnectFail(profile, build) ==
    /\ conn.socket = 0
    /\ reader \in {"none", "dead"}
    /\ connects < MaxConnects
    /\ connects' = connects + 1
    /\ conn' = set_status([Fresh(conn) EXCEPT !.profile = profile,
                                              !.cljs_build = build,
                                              !.socket = 0], None)
    /\ UNCHANGED <<more, prog, next_id, wire, reader, eval_shared, server, fine>>

\* ClojureSublimedDisconnectCommand
DisconnectCmd ==
    /\ conn.socket # 0
    /\ conn' = disconnect(Fresh(conn))
    /\ wire' = <<>>
    /\ UNCHANGED <<more, prog, next_id, reader, eval_shared, connects, server, fine>>

\* a reconnect that numbers the handshake of the new connection on from the
\* identifiers of the records
ReconnectCmd_ids_continue(ok) ==
    /\ conn.socket # 0
    /\ reader # "start"
    /\ old = "none"
    /\ connects < MaxConnects + MaxReconnects
    /\ connects' = connects + 1
    /\ conn' = send([disconnect(Fresh(conn)) EXCEPT !.socket = 1, !.hs = <<>>],
                    Req("clone", next_id, None, None, 0))
    /\ reader' = "loop"
    /\ old' = IF reader = "loop" THEN "loop" ELSE "none"
    /\ wire' = <<>>
    /\ server' = Server0
    /\ UNCHANGED <<next_id, eval_shared, fine, sock, sender, prog, io, jvm>>

\* ClojureSublimedReconnectCommand: disconnect(), then connect() with the host,
\* port, profile and build of the connection.  The reader thread of the old
\* connection is not waited for: it is still inside read_loop when the reader
\* thread of the new connection is started.  (The command is taken once the
\* old reader thread has sent its clone request, and once the reader thread of
\* an earlier reconnect has ended.)
ReconnectCmd(ok) ==
    /\ conn.socket # 0
    /\ reader # "start"
    /\ old = "none"
    /\ connects < MaxConnects + MaxReconnects
    /\ connects' = connects + 1
    /\ conn' = IF ok
               THEN [disconnect(Fresh(conn)) EXCEPT !.socket = 1, !.hs = <<>>]
               ELSE set_status(disconnect(Fresh(conn)), None)
    /\ reader' = IF ok THEN "start" ELSE reader
    /\ old' = IF ok /\ reader = "loop" THEN "loop" ELSE "none"
    /\ wire' = <<>>
    /\ server' = IF ok THEN Server0 ELSE server
    /\ UNCHANGED <<next_id, eval_shared, fine, sock, sender, prog, io, jvm>>

\* read_loop of the old connection, its end: the read on the closed socket
\* fails with OSError, then conn.disconnect() acts on the connection object
\* as it is now
OldReaderEnd ==
    /\ old = "loop"
    /\ old' = "none"
    /\ conn' = disconnect(Fresh(conn))
    /\ wire' = <<>>
    /\ UNCHANGED <<next_id, reader, eval_shared, connects, server, fine,
                   sock, sender, prog, io, jvm>>

\* ---------------------------------------------------------- progress ticker
\* ProgressThread.__init__ followed by update_phases with a single phase (the
\* settings read by plugin_loaded): not running, no thread; up tells that a
\* call of update_phases is past its first statement
Prog0 == [running |-> FALSE, phases |-> 1, phase_idx |-> 0, threads |-> <<>>,
          up |-> FALSE]

\* a thread entering run_loop
Ticker0 == [pc |-> "top", updated |-> FALSE, ids |-> {}, cur |-> 0, status |-> ""]

\* the view sublime.active_window().active_view() returns
active_view == CHOOSE v \in Views : TRUE

\* ProgressThread.phase: the label shown on a pending record
phase_of(p) == <<"phase", ToString(p.phase_idx)>>

phase == phase_of(prog)

\* condition.notify_all: the threads blocked in condition.wait return to the
\* top of the loop
notify_all(p) ==
    [p EXCEPT !.threads = [i \in DOMAIN p.threads |->
        IF p.threads[i].pc = "wait" THEN [p.threads[i] EXCEPT !.pc = "top"]
                                    ELSE p.threads[i]]]

\* ProgressThread.start
start(p) ==
    IF ~p.running
    THEN [p EXCEPT !.running = TRUE, !.threads = Append(@, Ticker0)]
    ELSE p

\* ProgressThread.wake
wake(p) == IF p.running THEN notify_all(p) ELSE p

\* ProgressThread.stop
stop(p) == notify_all([p EXCEPT !.running = FALSE])

\* ProgressThread.update_phases
update_phases(p, n) ==
    LET p1 == [p EXCEPT !.phases = n, !.phase_idx = 0]
    IN IF n > 1 THEN start(p1) ELSE stop(p1)

\* the records of a view that run_loop finds pending
PendingIn(c, view) == {id \in c.evals_by_view[view] : c.evals[id].status = "pending"}

\* a run_loop that finds the records and redraws none
republish_nothing(c, ids, label) == c

\* eval.update(eval.status, self.phase()) for each of the records
RECURSIVE republish(_, _, _)
republish(c, ids, label) ==
    IF ids = {} THEN c
    ELSE LET id == CHOOSE i \in ids : TRUE
         IN republish(SetEval(c, update(c.evals[id], c.evals[id].status, label, 0)),
                      ids \ {id}, label)

\* run_loop: if not self.running: break
TkTop(i) ==
    /\ i \in DOMAIN prog.threads
    /\ prog.threads[i].pc = "top"
    /\ prog' = [prog EXCEPT !.threads[i].pc = IF prog.running THEN "scan" ELSE "done"]
    /\ UNCHANGED <<conn, next_id, wire, reader, eval_shared, connects, server,
                   fine, more>>

\* run_loop, after the sleep: the pending records of the active view are
\* redrawn with the current phase
TkScan(i) ==
    /\ i \in DOMAIN prog.threads
    /\ prog.threads[i].pc = "scan"
    /\ LET ids == PendingIn(conn, active_view)
       IN /\ conn' = republish(Fresh(conn), ids, phase)
          /\ prog' = [prog EXCEPT !.threads[i] = [Ticker0 EXCEPT !.pc = "decide", !.updated = ids # {}]]
    /\ UNCHANGED <<next_id, wire, reader, eval_shared, connects, server, fine, more>>

\* run_loop: the index advances after an update, else the thread blocks in
\* condition.wait
TkDecide(i) ==
    /\ i \in DOMAIN prog.threads
    /\ prog.threads[i].pc = "decide"
    /\ prog' = IF prog.threads[i].updated
               THEN [prog EXCEPT !.phase_idx = (@ + 1) % prog.phases,
                                 !.threads[i].pc = "top"]
               ELSE [prog EXCEPT !.threads[i].pc = "wait"]
    /\ UNCHANGED <<conn, next_id, wire, reader, eval_shared, connects, server,
                   fine, more>>

\* on_settings_change: update_phases with the configured phases
SettingsChange(n) ==
    /\ (n > 1 /\ ~prog.running) => Len(prog.threads) < MaxTickers
    /\ prog' = update_phases(prog, n)
    /\ prog' # prog
    /\ UNCHANGED <<conn, next_id, wire, reader, eval_shared, connects, server,
                   fine, more>>

\* on_activated_async
ViewActivated ==
    /\ prog' = wake(prog)
    /\ prog' # prog
    /\ UNCHANGED <<conn, next_id, wire, reader, eval_shared, connects, server,
                   fine, more>>

\* eval_msg: the records under the new region are erased, the record is
\* created, registered and its request sent, then drawn as pending
eval_msg(c, id, view, erased, op, code) ==
    LET c1 == erase_evals(c, erased)
        e == NewEval(id, view)
        c2 == send(add_eval(c1, e), Req(op, id, c1.session, code, 0))
    IN SetEval(c2, update(c2.evals[id], "pending", phase, 0))

\* the op of eval()
EvalOp(c) ==
    IF c.profile = SHADOW_CLJS \/ c.eval_in_session THEN "eval" ELSE "clone-eval-close"

\* ClojureSublimedEval
EvalCmd(view, erased) ==
    /\ ready(conn)
    /\ next_id < FirstId + MaxEvals
    /\ erased \subseteq conn.evals_by_view[view]
    /\ conn' = eval_msg(Fresh(conn), next_id, view, erased, EvalOp(conn), Str("code"))
    /\ next_id' = next_id + 1
    /\ prog' = wake(prog)
    /\ UNCHANGED <<more, wire, reader, eval_shared, connects, server, fine>>

\* ClojureSublimedEvalBufferCommand
EvalBufferCmd(view, erased) ==
    /\ ready(conn)
    /\ next_id < FirstId + MaxEvals
    /\ erased \subseteq conn.evals_by_view[view]
    /\ conn' = eval_msg(Fresh(conn), next_id, view, erased, "load-file", Str("buffer"))
    /\ next_id' = next_id + 1
    /\ prog' = wake(prog)
    /\ UNCHANGED <<more, wire, reader, eval_shared, connects, server, fine>>

\* the records of the status bar that have come to an end
FinishedStatusEvals(c) ==
    {id \in DOMAIN c.evals : /\ c.evals[id].view = NoView
                             /\ c.evals[id].status \notin {"pending", "interrupt"}}

\* ClojureSublimedEvalCodeCommand
EvalCodeCmd ==
    /\ ready(conn)
    /\ next_id < FirstId + MaxEvals
    /\ LET c1 == erase_evals(Fresh(conn), FinishedStatusEvals(conn))
           e == NewEval(next_id, NoView)
           c2 == send(add_eval(c1, e), Req("eval", next_id, None, Str("code"), 0))
       IN conn' = SetEval(c2, update(c2.evals[next_id], "pending", phase, 0))
    /\ next_id' = next_id + 1
    /\ UNCHANGED <<more, prog, wire, reader, eval_shared, connects, server, fine>>

\* ClojureSublimedToggleSymbolCommand, the lookup of a symbol
LookupCmd(view, erased) ==
    /\ ready(conn)
    /\ next_id < FirstId + MaxEvals
    /\ erased \subseteq conn.evals_by_view[view]
    /\ LET c1 == erase_evals(Fresh(conn), erased)
       IN conn' = send(add_eval(c1, NewEval(next_id, view)),
                       Req("lookup", next_id, c1.session, Str("sym"), 0))
    /\ next_id' = next_id + 1
    /\ prog' = wake(prog)
    /\ UNCHANGED <<more, wire, reader, eval_shared, connects, server, fine>>

\* the loop of ClojureSublimedInterruptEvalCommand over the records of a view
RECURSIVE interrupt_evals(_, _)
interrupt_evals(c, ids) ==
    IF ids = {} THEN c
    ELSE LET id == CHOOSE x \in ids : \A y \in ids : x <= y
             e == c.evals[id]
             c1 == IF e.status = "pending"
                   THEN SetEval(send(c, Req("interrupt", 0, e.session, None, id)),
                                update(e, "interrupt", Str("Interrupting..."), 0))
                   ELSE c
         IN interrupt_evals(c1, ids \ {id})

\* ClojureSublimedInterruptEvalCommand
InterruptCmd(view) ==
    /\ ready(conn)
    /\ \E id \in conn.evals_by_view[view] : conn.evals[id].status = "pending"
    /\ conn' = interrupt_evals(Fresh(conn), conn.evals_by_view[view])
    /\ UNCHANGED <<more, prog, next_id, wire, reader, eval_shared, connects, server, fine>>

\* ClojureSublimedClearEvalsCommand
ClearEvalsCmd(view) ==
    /\ LET done == {id \in conn.evals_by_view[view] :
                       conn.evals[id].status \notin {"pending", "interrupt"}}
           c1 == erase_evals(Fresh(conn), done)
       IN /\ done \cup FinishedStatusEvals(conn) # {}
          /\ conn' = erase_evals(c1, FinishedStatusEvals(c1))
    /\ UNCHANGED <<more, prog, next_id, wire, reader, eval_shared, connects, server, fine>>

\* ClojureSublimedEventListener.on_close and the text-change listener: the
\* records of a view that the predicate picks are erased
EraseCmd(view, erased) ==
    /\ erased # {}
    /\ erased \subseteq conn.evals_by_view[view]
    /\ conn' = erase_evals(Fresh(conn), erased)
    /\ UNCHANGED <<more, prog, next_id, wire, reader, eval_shared, connects, server, fine>>

\* ------------------------------------------------ statement by statement
\* The reader thread, the command thread and the threads that construct
\* records share the connection and Eval.next_id without a lock; the steps
\* below take handle_value, erase_eval, disconnect and Eval.__init__ one
\* statement at a time, so that the threads interleave between statements.

\* the threads at rest
Rd0 == [pc |-> "idle", msg |-> Msg0, stale |-> FALSE]
Caller0 == [pc |-> "idle", e |-> NewEval(0, NoView)]
Ctor0 == [pc |-> "idle", id |-> 0, tmp |-> 0]
CtorThreads == 1 .. MaxThreads

\* handle_msg for a response that carries a value and no new-session, up to
\* the test msg["id"] in conn.evals of handle_value.  An identifier absent
\* here is absent in every later test of the same response, so the handlers
\* after handle_value pass as well and the response is done with.
RdCheck(msg) ==
    /\ reader = "loop"
    /\ rd.pc = "idle"
    /\ conn.socket = 1
    /\ conn' = Fresh(conn)
    /\ rd' = [Rd0 EXCEPT !.msg = msg,
                         !.pc = IF Known(conn, msg) THEN "fetch" ELSE "idle"]
    /\ UNCHANGED <<more, prog, next_id, wire, reader, eval_shared, connects, server,
                   caller, ctor, created>>

\* handle_value: eval = conn.evals[msg["id"]]; a KeyError is not an OSError,
\* so it ends the reader thread without the final disconnect()
RdFetch ==
    /\ rd.pc = "fetch"
    /\ conn' = Fresh(conn)
    /\ IF Known(conn, rd.msg)
       THEN rd' = [rd EXCEPT !.pc = "update"] /\ reader' = reader
       ELSE rd' = [rd EXCEPT !.pc = "idle"] /\ reader' = "dead"
    /\ UNCHANGED <<more, prog, next_id, wire, eval_shared, connects, server,
                   caller, ctor, created>>

\* handle_value: eval.update("success", ...) on the object fetched, which may
\* have left the registry since (stale), and return True
RdUpdate ==
    /\ rd.pc = "update"
    /\ LET id == rd.msg.id
       IN IF Known(conn, rd.msg)
          THEN /\ conn' = SetEval(Fresh(conn), update(conn.evals[id], "success",
                                                      rd.msg.value, rd.msg.time_taken))
               /\ rd' = [rd EXCEPT !.pc = "idle"]
               /\ caller' = caller
          ELSE /\ conn' = Fresh(conn)
               /\ rd' = [rd EXCEPT !.pc = "idle", !.stale = TRUE]
               /\ caller' = IF caller.pc # "idle" /\ caller.e.id = id
                            THEN [caller EXCEPT !.e = update(@, "success", rd.msg.value,
                                                             rd.msg.time_taken)]
                            ELSE caller
    /\ UNCHANGED <<more, prog, next_id, wire, reader, eval_shared, connects, server,
                   ctor, created>>

\* erase_eval: eval.erase(), the regions and phantoms of the record
ErBegin(view, id) ==
    /\ caller.pc = "idle"
    /\ id \in conn.evals_by_view[view]
    /\ id \in DOMAIN conn.evals
    /\ conn' = Fresh(conn)
    /\ caller' = [pc |-> "del", e |-> conn.evals[id]]
    /\ UNCHANGED <<more, prog, next_id, wire, reader, eval_shared, connects, server,
                   rd, ctor, created>>

\* erase_eval: del self.evals[eval.id]; a KeyError ends the command
ErDel ==
    /\ caller.pc = "del"
    /\ IF caller.e.id \in DOMAIN conn.evals
       THEN /\ conn' = [Fresh(conn) EXCEPT !.evals = Without(@, caller.e.id)]
            /\ caller' = [pc |-> "del_view", e |-> conn.evals[caller.e.id]]
       ELSE /\ conn' = Fresh(conn)
            /\ caller' = Caller0
    /\ UNCHANGED <<more, prog, next_id, wire, reader, eval_shared, connects, server,
                   rd, ctor, created>>

\* erase_eval: del self.evals_by_view[view.id()][eval.id]
ErDelView ==
    /\ caller.pc = "del_view"
    /\ IF caller.e.id \in conn.evals_by_view[caller.e.view]
       THEN /\ conn' = [Fresh(conn) EXCEPT
                           !.evals_by_view[caller.e.view] = @ \ {caller.e.id}]
            /\ caller' = [caller EXCEPT !.pc = "interrupt"]
       ELSE /\ conn' = Fresh(conn)
            /\ caller' = Caller0
    /\ UNCHANGED <<more, prog, next_id, wire, reader, eval_shared, connects, server,
                   rd, ctor, created>>

\* erase_eval: the interrupt for a record pending under a session; with the
\* socket gone conn.send raises and nothing is written
ErInterrupt ==
    /\ caller.pc = "interrupt"
    /\ conn' = IF /\ caller.e.status = "pending" /\ Truthy(caller.e.session)
                  /\ conn.socket # 0
               THEN send(Fresh(conn), Req("interrupt", 0, caller.e.session, None,
                                          caller.e.id))
               ELSE Fresh(conn)
    /\ caller' = Caller0
    /\ UNCHANGED <<more, prog, next_id, wire, reader, eval_shared, connects, server,
                   rd, ctor, created>>

\* a statement of disconnect() or reset() on the command thread
DcStep(from, to, c) ==
    /\ caller.pc = from
    /\ conn' = c
    /\ caller' = [caller EXCEPT !.pc = to]
    /\ UNCHANGED <<more, prog, next_id, wire, reader, eval_shared, connects, server,
                   rd, ctor, created>>

\* disconnect: if self.socket: self.socket.close(); the attribute still holds
\* the closed socket (2)
DcClose ==
    /\ conn.socket = 1
    /\ DcStep("idle", "dc_socket", [Fresh(conn) EXCEPT !.socket = 2])

\* reset: self.socket = None; self.reader = None
DcSocket == DcStep("dc_socket", "dc_session", [Fresh(conn) EXCEPT !.socket = 0])

\* reset: self.session = None
DcSession == DcStep("dc_session", "dc_status", [Fresh(conn) EXCEPT !.session = None])

\* reset: self.set_status(None)
DcStatus == DcStep("dc_status", "dc_clear", set_status(Fresh(conn), None))

\* reset: every record erased from its view, then self.evals.clear()
DcClear == DcStep("dc_clear", "dc_views", [Fresh(conn) EXCEPT !.evals = NoEvals])

\* reset: self.evals_by_view.clear()
DcViews ==
    DcStep("dc_views", "idle",
           [Fresh(conn) EXCEPT !.evals_by_view = [v \in Views |-> {}]])

\* Eval.__init__ / StatusEval.__init__: self.id = Eval.next_id
CtorAssign(t) ==
    /\ ctor[t].pc = "idle"
    /\ Len(created) < MaxCreated
    /\ ctor' = [ctor EXCEPT ![t] = [pc |-> "load", id |-> next_id, tmp |-> 0]]
    /\ created' = Append(created, next_id)
    /\ UNCHANGED <<more, prog, conn, next_id, wire, reader, eval_shared, connects, server,
                   rd, caller>>

\* Eval.next_id += 1, the read of the class attribute
CtorLoad(t) ==
    /\ ctor[t].pc = "load"
    /\ ctor' = [ctor EXCEPT ![t].pc = "store", ![t].tmp = next_id]
    /\ UNCHANGED <<more, prog, conn, next_id, wire, reader, eval_shared, connects, server,
                   rd, caller, created>>

\* Eval.next_id += 1, the write of the sum
CtorStore(t) ==
    /\ ctor[t].pc = "store"
    /\ next_id' = ctor[t].tmp + 1
    /\ ctor' = [ctor EXCEPT ![t] = Ctor0]
    /\ UNCHANGED <<more, prog, conn, wire, reader, eval_shared, connects, server,
                   rd, caller, created>>

\* ------------------------------------------- eval_msg and run_loop by step
\* eval_msg up to conn.send(eval.msg): the record is registered and its
\* request written; the command holds the Eval object
EvSend(view) ==
    /\ caller.pc = "idle"
    /\ ready(conn)
    /\ next_id < FirstId + MaxEvals
    /\ LET c1 == Fresh(conn)
           e == NewEval(next_id, view)
       IN /\ conn' = send(add_eval(c1, e),
                          Req(EvalOp(conn), next_id, c1.session, Str("code"), 0))
          /\ caller' = [pc |-> "sent", e |-> e]
    /\ next_id' = next_id + 1
    /\ prog' = wake(prog)
    /\ UNCHANGED <<more, wire, reader, eval_shared, connects, server, rd, ctor, created>>

\* ClojureSublimedEvalCodeCommand.run up to conn.send(msg)
EvCodeSend ==
    /\ caller.pc = "idle"
    /\ ready(conn)
    /\ next_id < FirstId + MaxEvals
    /\ LET c1 == erase_evals(Fresh(conn), FinishedStatusEvals(conn))
           e == NewEval(next_id, NoView)
       IN /\ conn' = send(add_eval(c1, e), Req("eval", next_id, None, Str("code"), 0))
          /\ caller' = [pc |-> "sent", e |-> e]
    /\ next_id' = next_id + 1
    /\ UNCHANGED <<more, prog, wire, reader, eval_shared, connects, server, rd, ctor,
                   created>>

\* eval_msg and ClojureSublimedEvalCodeCommand.run, the statement after send:
\* eval.update("pending", progress_thread.phase()) on the object held
EvPending ==
    /\ caller.pc = "sent"
    /\ LET id == caller.e.id
       IN conn' = IF id \in DOMAIN conn.evals
                  THEN SetEval(Fresh(conn), update(conn.evals[id], "pending", phase, 0))
                  ELSE Fresh(conn)
    /\ caller' = Caller0
    /\ UNCHANGED <<more, prog, next_id, wire, reader, eval_shared, connects, server, rd,
                   ctor, created>>

\* run_loop: the test eval.status == "pending" on the records of the active
\* view; the thread holds the records that passed it
TkSee(i) ==
    /\ i \in DOMAIN prog.threads
    /\ prog.threads[i].pc = "scan"
    /\ LET ids == PendingIn(conn, active_view)
       IN prog' = [prog EXCEPT !.threads[i] =
                      IF ids = {} THEN [Ticker0 EXCEPT !.pc = "decide"]
                      ELSE [Ticker0 EXCEPT !.pc = "draw", !.ids = ids]]
    /\ UNCHANGED <<conn, next_id, wire, reader, eval_shared, connects, server,
                   fine, more>>

\* run_loop: eval.update(eval.status, self.phase()), the first argument: the
\* status the record has by now is read
TkArg(i, id) ==
    /\ i \in DOMAIN prog.threads
    /\ prog.threads[i].pc = "draw"
    /\ id \in prog.threads[i].ids
    /\ prog' = [prog EXCEPT !.threads[i] =
                   [@ EXCEPT !.pc = "call", !.cur = id,
                             !.status = IF id \in DOMAIN conn.evals
                                        THEN conn.evals[id].status ELSE "pending"]]
    /\ UNCHANGED <<conn, next_id, wire, reader, eval_shared, connects, server,
                   fine, more>>

\* run_loop: self.phase() is called and eval.update sets the status read and
\* the label; updated = True.  With the index past the end of the list the
\* subscript raises IndexError, which ends the thread.
TkDraw(i) ==
    /\ i \in DOMAIN prog.threads
    /\ prog.threads[i].pc = "call"
    /\ LET t == prog.threads[i]
       IN IF prog.phase_idx < prog.phases
          THEN /\ conn' = IF t.cur \in DOMAIN conn.evals
                          THEN SetEval(Fresh(conn),
                                       update(conn.evals[t.cur], t.status, phase, 0))
                          ELSE Fresh(conn)
               /\ prog' = [prog EXCEPT !.threads[i] =
                              IF t.ids = {t.cur}
                              THEN [Ticker0 EXCEPT !.pc = "decide", !.updated = TRUE]
                              ELSE [Ticker0 EXCEPT !.pc = "draw", !.ids = t.ids \ {t.cur}]]
          ELSE /\ conn' = Fresh(conn)
               /\ prog' = [prog EXCEPT !.threads[i] = [Ticker0 EXCEPT !.pc = "done"]]
    /\ UNCHANGED <<next_id, wire, reader, eval_shared, connects, server, fine, more>>

\* update_phases, its first statement: self.phases = phases
UpPhases(n) ==
    /\ ~prog.up
    /\ (n > 1 /\ ~prog.running) => Len(prog.threads) < MaxTickers
    /\ prog' = [prog EXCEPT !.phases = n, !.up = TRUE]
    /\ UNCHANGED <<conn, next_id, wire, reader, eval_shared, connects, server,
                   fine, more>>

\* update_phases, the statements after: self.phase_idx = 0, then start() or
\* stop() by the length of the list
UpRest ==
    /\ prog.up
    /\ prog' = LET p1 == [prog EXCEPT !.phase_idx = 0, !.up = FALSE]
               IN IF p1.phases > 1 THEN start(p1) ELSE stop(p1)
    /\ UNCHANGED <<conn, next_id, wire, reader, eval_shared, connects, server,
                   fine, more>>

\* ------------------------------------------------ the registry by operation
\* Connection.add_eval with a new record, of a view or of the status bar
RegAdd(view) ==
    /\ next_id < FirstId + MaxAdded
    /\ conn' = add_eval(Fresh(conn), NewEval(next_id, view))
    /\ next_id' = next_id + 1
    /\ UNCHANGED <<more, prog, wire, reader, eval_shared, connects, server, fine>>

\* Connection.erase_eval on a record of the registry
RegErase(id) ==
    /\ id \in DOMAIN conn.evals
    /\ conn' = erase_eval(Fresh(conn), id)
    /\ UNCHANGED <<more, prog, next_id, wire, reader, eval_shared, connects, server, fine>>

\* Connection.erase_evals with a predicate that picks several records, over
\* the whole registry or over the records of a view
RegEraseEvals(ids) ==
    /\ ids \subseteq DOMAIN conn.evals
    /\ Cardinality(ids) > 1
    /\ conn' = erase_evals(Fresh(conn), ids)
    /\ UNCHANGED <<more, prog, next_id, wire, reader, eval_shared, connects, server, fine>>

\* Connection.reset
RegReset ==
    /\ conn' = reset(Fresh(conn))
    /\ conn' # conn
    /\ UNCHANGED <<more, prog, next_id, wire, reader, eval_shared, connects, server, fine>>

\* Connection.disconnect
RegDisconnect ==
    /\ conn.socket # 0
    /\ conn' = disconnect(Fresh(conn))
    /\ UNCHANGED <<more, prog, next_id, wire, reader, eval_shared, connects, server, fine>>

\* ------------------------------------------------------------ JVM connection
\* ConnectionNreplJvm.  Its base class is not part of the sources at hand: of
\* set_status and of the base send only the calls handle_connect makes are
\* kept, as the status last set and the requests handed over, in order.
JvmStatus(ph, text) == [phase |-> ph, text |-> text]

\* the connection once the clone request (id 1) is out; answered and faithful
\* are history of the server, msg the response handle_msg was last given
Jvm0 ==
    [session |-> None, status |-> JvmStatus(1, None), out |-> <<>>,
     answered |-> {}, faithful |-> TRUE, msg |-> Msg0]

\* self.set_status(phase, text), as handle_connect calls it
jvm_set_status(c, ph, text) == [c EXCEPT !.status = JvmStatus(ph, text)]

\* ConnectionNreplJvm.send: the request handed to the base send (the printer
\* options added when ready() are not kept)
jvm_send(c, msg) == [c EXCEPT !.out = Append(@, msg)]

\* a handle_connect that sends add-middleware with id 4 whatever the setting
jvm_handle_connect_always4(c, msg, shared) ==
    IF msg.id = 1 /\ msg.new_session # None
    THEN Ret(jvm_send(jvm_set_status([c EXCEPT !.session = msg.new_session],
                                     2, Str("Uploading middleware 1/2...")),
                      Req("load-file", 2, msg.new_session, Str("exception.clj"), 0)), TRUE)
    ELSE IF msg.id = 2 /\ "done" \in msg.status
    THEN Ret(jvm_send(jvm_set_status(c, 2, Str("Uploading middleware 2/2...")),
                      Req("load-file", 3, c.session, Str("middleware.clj"), 0)), TRUE)
    ELSE IF msg.id = 3 /\ "done" \in msg.status
    THEN Ret(jvm_send(jvm_set_status(c, 2, Str("Adding middlewares...")),
                      Req("add-middleware", 4, c.session, None, 0)), TRUE)
    ELSE IF msg.id = 4 /\ "done" \in msg.status
    THEN Ret(jvm_send(jvm_set_status(c, 3, Str("Evaluating session code...")),
                      Req("eval", 5, c.session, shared, 0)), TRUE)
    ELSE IF msg.id = 5 /\ "done" \in msg.status
    THEN Ret(jvm_set_status(c, 4, Str("addr")), TRUE)
    ELSE Ret(c, FALSE)

\* ConnectionNreplJvm.handle_connect
jvm_handle_connect(c, msg, shared) ==
    IF msg.id = 1 /\ msg.new_session # None
    THEN Ret(jvm_send(jvm_set_status([c EXCEPT !.session = msg.new_session],
                                     2, Str("Uploading middleware 1/2...")),
                      Req("load-file", 2, msg.new_session, Str("exception.clj"), 0)), TRUE)
    ELSE IF msg.id = 2 /\ "done" \in msg.status
    THEN Ret(jvm_send(jvm_set_status(c, 2, Str("Uploading middleware 2/2...")),
                      Req("load-file", 3, c.session, Str("middleware.clj"), 0)), TRUE)
    ELSE IF msg.id = 3 /\ "done" \in msg.status
    THEN Ret(jvm_send(jvm_set_status(c, 2, Str("Adding middlewares...")),
                      Req("add-middleware", IF Truthy(shared) THEN 4 ELSE 5,
                          c.session, None, 0)), TRUE)
    ELSE IF msg.id = 4 /\ "done" \in msg.status
    THEN Ret(jvm_send(jvm_set_status(c, 3, Str("Evaluating session code...")),
                      Req("eval", 5, c.session, shared, 0)), TRUE)
    ELSE IF msg.id = 5 /\ "done" \in msg.status
    THEN Ret(jvm_set_status(c, 4, Str("addr")), TRUE)
    ELSE Ret(c, FALSE)

\* the responses of the JVM handshake: an identifier, a new-session key or
\* none, a status with done or without
JvmMsgs ==
    {[Msg0 EXCEPT !.id = id, !.new_session = ns, !.status = st] :
        id \in 1 .. 5, ns \in {None, Str("s1"), Str("s2")}, st \in {{}, {"done"}}}

\* the response is one a server that answers every request once may send now:
\* the new session for the clone request, or, for a request written and not
\* yet answered, a part of its answer or the done that ends it
JvmExpected(c, msg) ==
    /\ msg.id \notin c.answered
    /\ IF msg.id = 1 THEN msg.new_session # None
       ELSE /\ msg.new_session = None
            /\ \E k \in DOMAIN c.out : c.out[k].id = msg.id

\* handle_msg on a response of the handshake: handle_connect, and when it
\* passes, handlers of the registry that leave the connection as it is
JvmReceive(msg) ==
    /\ Len(jvm_handle_connect(jvm, msg, eval_shared).c.out) <= MaxJvmOut
    /\ LET c == jvm_handle_connect(jvm, msg, eval_shared).c
           ok == jvm.faithful /\ JvmExpected(jvm, msg)
       IN jvm' = [c EXCEPT !.msg = msg,
                           !.faithful = ok,
                           !.answered = IF ~ok THEN {}
                                        ELSE IF msg.id = 1 \/ "done" \in msg.status
                                        THEN @ \cup {msg.id} ELSE @]
    /\ UNCHANGED <<conn, next_id, wire, reader, eval_shared, connects, server, fine,
                   sock, sender, old, io, prog>>

\* ------------------------------------------------------------- byte reader
\* SocketIO.__init__, with the history of the stream: the number of bytes
\* socket.recv has returned, whether it has returned the empty chunk, the
\* bytes the read calls have returned, and the last call (its n, its result,
\* whether it called recv).  A byte is written as its offset in the stream.
SocketIO0 ==
    [buffer |-> <<>>, pos |-> -1, recvd |-> 0, eof |-> FALSE, got |-> <<>>,
     n |-> 0, result |-> <<>>, refilled |-> FALSE]

\* the chunk of len bytes that follows the bytes received so far
Chunk(recvd, len) == [k \in 1 .. len |-> recvd + k]

\* buffer[begin:end]
Slice(buffer, begin, end) ==
    IF begin >= end THEN <<>> ELSE SubSeq(buffer, begin + 1, end)

\* min
Min(a, b) == IF a < b THEN a ELSE b

\* a read that returns its slice and leaves the cursor where it was
read_cursor_stays(r, n, len) ==
    LET refill == r.buffer = <<>> \/ r.pos >= Len(r.buffer)
        buffer == IF refill THEN Chunk(r.recvd, len) ELSE r.buffer
        begin == IF refill THEN 0 ELSE r.pos
        end == Min(begin + n, Len(buffer))
    IN [buffer |-> buffer, pos |-> begin,
        recvd |-> IF refill THEN r.recvd + len ELSE r.recvd,
        eof |-> r.eof \/ (refill /\ len = 0),
        got |-> r.got \o Slice(buffer, begin, end),
        n |-> n, result |-> Slice(buffer, begin, end), refilled |-> refill]

\* SocketIO.read(n), where socket.recv, if called, returns len bytes
read(r, n, len) ==
    LET refill == r.buffer = <<>> \/ r.pos >= Len(r.buffer)
        buffer == IF refill THEN Chunk(r.recvd, len) ELSE r.buffer
        begin == IF refill THEN 0 ELSE r.pos
        end == Min(begin + n, Len(buffer))
    IN [buffer |-> buffer, pos |-> end,
        recvd |-> IF refill THEN r.recvd + len ELSE r.recvd,
        eof |-> r.eof \/ (refill /\ len = 0),
        got |-> r.got \o Slice(buffer, begin, end),
        n |-> n, result |-> Slice(buffer, begin, end), refilled |-> refill]

\* the decoder calls read(n); recv returns len bytes (none once the stream
\* has ended)
Read(n, len) ==
    /\ io.eof => len = 0
    /\ io.recvd + len <= MaxBytes
    /\ io' = read(io, n, len)
    /\ io' # io
    /\ UNCHANGED <<conn, next_id, wire, reader, eval_shared, connects, server,
                   fine, sock, sender, old, prog, jvm>>

\* ------------------------------------------------------------ socket writes
\* Connection.send, socket.sendall taken one write at a time: sendall hands the
\* encoded request to the socket in pieces when the socket's buffer fills, and
\* Connection.send takes no lock.
Senders == {"reader", "caller"}
Idle == [id |-> 0, part |-> 0, parts |-> 0]
Sender0 == [t \in Senders |-> Idle]

\* the identifiers whose requests have been handed to the socket, in part at least
Begun == {sock[k].id : k \in DOMAIN sock}

\* the request has been written completely
Written(id) == \E k \in DOMAIN sock : sock[k].id = id /\ sock[k].part = sock[k].parts

\* the requests a thread has to write: the reader thread those of the handshake
\* (read_loop, handle_connect), a command those of the records it registered
ToWrite(t) ==
    IF t = "reader"
    THEN IF reader = "loop" THEN {conn.hs[k].id : k \in DOMAIN conn.hs} ELSE {}
    ELSE DOMAIN conn.evals

\* sendall, its first write
SendBegin(t, id, parts) ==
    /\ conn.socket = 1
    /\ sender[t] = Idle
    /\ id \in ToWrite(t) \ Begun
    /\ sock' = Append(sock, [id |-> id, part |-> 1, parts |-> parts])
    /\ sender' = [sender EXCEPT ![t] = IF parts = 1 THEN Idle
                                       ELSE [id |-> id, part |-> 1, parts |-> parts]]
    /\ UNCHANGED <<conn, next_id, wire, reader, eval_shared, connects, server,
                   fine, old, prog, io, jvm>>

\* sendall, a further write
SendMore(t) ==
    /\ sender[t] # Idle
    /\ LET w == [sender[t] EXCEPT !.part = @ + 1]
       IN /\ sock' = Append(sock, w)
          /\ sender' = [sender EXCEPT ![t] = IF w.part = w.parts THEN Idle ELSE w]
    /\ UNCHANGED <<conn, next_id, wire, reader, eval_shared, connects, server,
                   fine, old, prog, io, jvm>>

\* ---------------------------------------------------------------- responses
\* identifiers of the records
RecordIds == FirstId .. (FirstId + MaxEvals - 1)

\* responses to handshake requests: the clone response, done with and without
\* further status markers
HandshakeMsgs ==
    {[Msg0 EXCEPT !.id = 1, !.new_session = Str("s1"), !.status = {"done"}]}
    \cup {[Msg0 EXCEPT !.id = i, !.status = st] :
             i \in 2 .. 4, st \in {{"done"}, {"done", "error"}}}

\* responses to the request of one record
RecordMsgs(id) ==
    {[Msg0 EXCEPT !.id = id, !.new_session = Str("s2")],
     [Msg0 EXCEPT !.id = id, !.value = Str("3"), !.status = {"done"}],
     [Msg0 EXCEPT !.id = id, !.status = {"done"}]}

\* what the server may put on the stream
Responses == HandshakeMsgs \cup UNION {RecordMsgs(id) : id \in RecordIds}

\* an identifier the registry has never held
UnknownId == FirstId + MaxEvals

\* the identifiers of the responses routed to the registry
RouteIds == RecordIds \cup {UnknownId}

\* responses that carry exception keys in every combination of presence of
\* the class, the message, root-ex, ex, namespace-not-found and ns
ExceptionMsgs(id) ==
    {[Msg0 EXCEPT !.id = id, !.root_ex_class = cl, !.root_ex_msg = ms,
                  !.root_ex = rx, !.ex = ex, !.status = st,
                  !.ns = IF "namespace-not-found" \in st THEN ns ELSE None] :
        cl \in {None, EmptyStr, Str("X")}, ms \in {None, EmptyStr, Str("m")},
        rx \in {None, Str("R")}, ex \in {None, Str("E")},
        st \in {{"eval-error"}, {"done", "error", "namespace-not-found"}},
        ns \in {None, Str("n")}}

\* structured exceptions with and without extra data, location, source, trace
StructuredMsgs(id) ==
    {[Msg0 EXCEPT !.id = id, !.root_ex_class = Str("X"), !.root_ex_msg = Str("m"),
                  !.root_ex_data = da, !.loc = lo, !.source = so, !.trace = tr,
                  !.ex = Str("E"), !.status = {"eval-error"}] :
        da \in {None, Str("d")}, lo \in BOOLEAN, so \in {None, Str("f")},
        tr \in {None, Str("t")}}

\* responses that carry the key of each handler or not: new-session, value,
\* an exception (structured, raw, namespace-not-found), info, done
HandlerMsgs(id) ==
    {[Msg0 EXCEPT !.id = id, !.new_session = nw, !.value = va,
                  !.root_ex_class = IF k = "structured" THEN Str("X") ELSE None,
                  !.root_ex_msg = IF k = "structured" THEN Str("m") ELSE None,
                  !.ex = IF k = "raw" THEN Str("E") ELSE None,
                  !.ns = IF k = "nnf" THEN Str("n") ELSE None,
                  !.info = inf,
                  !.status = (IF k = "nnf" THEN {"namespace-not-found"} ELSE {})
                             \cup (IF dn THEN {"done"} ELSE {})] :
        nw \in {None, Str("s2")}, va \in {None, Str("3")},
        k \in {"none", "structured", "raw", "nnf"},
        inf \in {None, Str("info")}, dn \in BOOLEAN}

\* a value with its elapsed time, and a value cut short by the printer
ValueMsgs(id) ==
    {[Msg0 EXCEPT !.id = id, !.value = Str("3"), !.status = {"done"},
                  !.time_taken = 5],
     [Msg0 EXCEPT !.id = id, !.value = Str("3"), !.truncated = {"value"}]}

\* what the server may put on the stream for the registry
RouteMsgs ==
    UNION {ExceptionMsgs(id) \cup StructuredMsgs(id) \cup HandlerMsgs(id)
           \cup ValueMsgs(id) : id \in RouteIds}

\* the responses taken statement by statement: a value, for an identifier the
\* registry holds or has never held
RaceMsgs ==
    {[Msg0 EXCEPT !.id = id, !.value = Str("3"), !.status = {"done"}] :
        id \in RouteIds}

\* ------------------------------------------------------------ specification
Builds == {"node-repl", ":app"}

Conn0 ==
    [socket |-> 0, session |-> None, status |-> None, profile |-> "none",
     cljs_build |-> "none", eval_in_session |-> FALSE, evals |-> NoEvals,
     evals_by_view |-> [v \in Views |-> {}], out |-> <<>>, hs |-> <<>>,
     ints |-> {}]

Init ==
    /\ conn = Conn0
    /\ next_id = FirstId
    /\ wire = <<>>
    /\ reader = "none"
    /\ eval_shared \in {None, Str("(init)")}
    /\ connects = 0
    /\ server = Server0
    /\ rd = Rd0
    /\ caller = Caller0
    /\ ctor = [t \in CtorThreads |-> Ctor0]
    /\ created = <<>>
    /\ prog = Prog0
    /\ sock = <<>>
    /\ sender = Sender0
    /\ old = "none"
    /\ io = SocketIO0
    /\ jvm = Jvm0

Next ==
    \/ ReadLoopStart
    \/ \E msg \in Responses : Receive(msg)
    \/ ReadLoopEnd
    \/ Connect(CLOJURE, "none")
    \/ \E build \in Builds : Connect(SHADOW_CLJS, build)
    \/ ConnectFail(CLOJURE, "none")
    \/ DisconnectCmd
    \/ \E view \in Views : \E erased \in SUBSET conn.evals_by_view[view] :
          EvalCmd(view, erased)
    \/ \E view \in Views : \E erased \in SUBSET conn.evals_by_view[view] :
          EvalBufferCmd(view, erased)
    \/ \E view \in Views : \E erased \in SUBSET conn.evals_by_view[view] :
          LookupCmd(view, erased)
    \/ \E view \in Views : \E erased \in SUBSET conn.evals_by_view[view] :
          EraseCmd(view, erased)
    \/ EvalCodeCmd
    \/ \E view \in Views : InterruptCmd(view)
    \/ \E view \in Views : ClearEvalsCmd(view)

Spec == Init /\ [][Next]_vars

\* ------------------------------------------------------------------ routing
\* The server answers each handshake request as expected and then writes any
\* response for the registry; the read loop takes it from the stream.  A
\* handler reads and writes the one record its response names, so the
\* commands are run one request at a time.

\* the expected response to a handshake request not answered yet
HandshakeReply(msg) ==
    /\ Expected(conn, server, msg)
    /\ conn.socket = 1
    /\ rd.pc = "idle"
    /\ Receive(msg)

\* the server, the handshake over, writes a response for the registry
ServerReply(msg) ==
    /\ reader = "loop"
    /\ conn.socket = 1
    /\ conn.status = StatusConnected
    /\ wire = <<>>
    /\ wire' = <<msg>>
    /\ conn' = Fresh(conn)
    /\ UNCHANGED <<more, prog, next_id, reader, eval_shared, connects, server, fine>>

\* read_loop, one turn on the response at the head of the stream
ReadLoopMsg ==
    /\ wire # <<>>
    /\ Dispatch(Head(wire))
    /\ wire' = Tail(wire)

\* one request at a time: a command is run once the record of the one before
\* has left the registry
OneAtATime == DOMAIN conn.evals = {}

NextRoute ==
    \/ Connect(CLOJURE, "none")
    \/ ReadLoopStart
    \/ \E msg \in HandshakeMsgs : HandshakeReply(msg)
    \/ \E msg \in RouteMsgs : ServerReply(msg)
    \/ ReadLoopMsg
    \/ \E view \in Views : OneAtATime /\ EvalCmd(view, {})
    \/ \E view \in Views : OneAtATime /\ LookupCmd(view, {})
    \/ OneAtATime /\ EvalCodeCmd
    \/ \E view \in Views : InterruptCmd(view)
    \/ \E view \in Views : ClearEvalsCmd(view)

SpecRoute == Init /\ [][NextRoute]_vars

\* ------------------------------------------------------------------ threads
\* The reader thread inside handle_value against the command thread inside
\* erase_eval or disconnect.
NextRace ==
    \/ caller.pc = "idle" /\ Connect(CLOJURE, "none")
    \/ ReadLoopStart
    \/ \E msg \in HandshakeMsgs : HandshakeReply(msg)
    \/ \E id \in RecordIds :
          /\ rd.pc = "idle" /\ conn.socket = 1
          /\ Receive([Msg0 EXCEPT !.id = id, !.new_session = Str("s2")])
    \/ rd.pc = "idle" /\ ReadLoopEnd
    \/ \E view \in Views : caller.pc = "idle" /\ EvalCmd(view, {})
    \/ \E msg \in RaceMsgs : RdCheck(msg)
    \/ RdFetch
    \/ RdUpdate
    \/ \E view \in Views : \E id \in conn.evals_by_view[view] : ErBegin(view, id)
    \/ ErDel
    \/ ErDelView
    \/ ErInterrupt
    \/ DcClose
    \/ DcSocket
    \/ DcSession
    \/ DcStatus
    \/ DcClear
    \/ DcViews

SpecRace == Init /\ [][NextRace]_vars

\* ------------------------------------------------------------- constructors
\* Threads inside Eval.__init__ at the same time.
NextIds ==
    \/ \E t \in CtorThreads : CtorAssign(t)
    \/ \E t \in CtorThreads : CtorLoad(t)
    \/ \E t \in CtorThreads : CtorStore(t)

SpecIds == Init /\ [][NextIds]_vars

\* ------------------------------------------------------------ socket writes
\* The handshake and one command, with the writes of the requests taken piece
\* by piece.  The server answers a handshake request it has received whole.
SendReply(msg) ==
    /\ Written(msg.id)
    /\ HandshakeReply(msg)

NextSend ==
    \/ Connect(CLOJURE, "none")
    \/ ReadLoopStart
    \/ \E msg \in HandshakeMsgs : SendReply(msg)
    \/ \E view \in Views : EvalCmd(view, {})
    \/ \E t \in Senders, id \in RecordIds \cup 1 .. 4, parts \in 1 .. MaxChunks :
          SendBegin(t, id, parts)
    \/ \E t \in Senders : SendMore(t)

SpecSend == Init /\ [][NextSend]_vars

\* ----------------------------------------------------------- progress ticker
\* One connection, the commands that create records (run one at a time), the
\* responses that end them, and the ticker threads taken statement by statement.
NextTicker ==
    \/ Connect(CLOJURE, "none")
    \/ ReadLoopStart
    \/ \E msg \in HandshakeMsgs : HandshakeReply(msg)
    \/ \E view \in Views : OneAtATime /\ EvalCmd(view, {})
    \/ \E view \in Views : OneAtATime /\ LookupCmd(view, {})
    \/ OneAtATime /\ EvalCodeCmd
    \/ \E msg \in ValueMsgs(FirstId) : ServerReply(msg)
    \/ ReadLoopMsg
    \/ \E n \in 1 .. MaxPhases : SettingsChange(n)
    \/ ViewActivated
    \/ \E i \in 1 .. MaxTickers : TkTop(i)
    \/ \E i \in 1 .. MaxTickers : TkScan(i)
    \/ \E i \in 1 .. MaxTickers : TkDecide(i)

SpecTicker == Init /\ [][NextTicker]_vars

\* ---------------------------------------------------------------- reconnect
\* Connect, evaluate once connected, disconnect and reconnect, with a server
\* that answers each handshake request once.
WhenConnected == conn.status = StatusConnected

NextReconnect ==
    \/ Connect(CLOJURE, "none")
    \/ ReadLoopStart
    \/ \E msg \in HandshakeMsgs : HandshakeReply(msg)
    \/ \E view \in Views : WhenConnected /\ EvalCmd(view, {})
    \/ \E view \in Views : WhenConnected /\ LookupCmd(view, {})
    \/ \E msg \in ValueMsgs(FirstId) : ServerReply(msg)
    \/ ReadLoopMsg
    \/ ReadLoopEnd
    \/ DisconnectCmd
    \/ \E ok \in BOOLEAN : ReconnectCmd(ok)
    \/ OldReaderEnd

SpecReconnect == Init /\ [][NextReconnect]_vars

\* ---------------------------------------------------------------- handshake
\* The handshake with the responses on the stream: the server writes a
\* handshake-shaped response, expected at this step or not, and the read loop
\* routes it.
ServerSends(msg) ==
    /\ reader = "loop"
    /\ conn.socket = 1
    /\ wire = <<>>
    /\ Answered(conn, server, msg).stray <= MaxStray
    /\ wire' = <<msg>>
    /\ conn' = Fresh(conn)
    /\ UNCHANGED <<more, prog, next_id, reader, eval_shared, connects, server, fine>>

NextHandshake ==
    \/ \E build \in Builds : Connect(SHADOW_CLJS, build)
    \/ Connect(CLOJURE, "none")
    \/ ReadLoopStart
    \/ \E msg \in HandshakeMsgs : ServerSends(msg)
    \/ ReadLoopMsg

SpecHandshake == Init /\ [][NextHandshake]_vars

\* ----------------------------------------------------------------- sessions
\* One connection with its records, the responses that carry a session token
\* for a record or for no record, and the teardown.
SessionMsgs ==
    {[Msg0 EXCEPT !.id = id, !.new_session = Str("s2"), !.value = va,
                  !.status = st] :
        id \in RouteIds, va \in {None, Str("3")}, st \in {{}, {"done"}}}

NextSession ==
    \/ Connect(CLOJURE, "none")
    \/ ReadLoopStart
    \/ \E msg \in HandshakeMsgs : HandshakeReply(msg)
    \/ \E view \in Views : WhenConnected /\ EvalCmd(view, {})
    \/ WhenConnected /\ EvalCodeCmd
    \/ \E msg \in SessionMsgs : ServerReply(msg)
    \/ ReadLoopMsg
    \/ ReadLoopEnd
    \/ DisconnectCmd

SpecSession == Init /\ [][NextSession]_vars

\* -------------------------------------------------------------- byte reader
\* The reads of the decoder on one socket, for every size of read and every
\* way the socket cuts the stream into chunks.
NextIO == \E n \in 1 .. MaxRead, len \in 0 .. MaxChunkLen : Read(n, len)

SpecIO == Init /\ [][NextIO]_vars

\* ------------------------------------------------------------- three threads
\* The command thread between send and its pending update, the reader thread
\* on the value response, and the ticker between its test and its update.  The
\* commands are run once the handshake is over, and the server answers a
\* request it has been sent.
NextOutcome ==
    \/ Connect(CLOJURE, "none")
    \/ ReadLoopStart
    \/ \E msg \in HandshakeMsgs : HandshakeReply(msg)
    \/ \E view \in Views : WhenConnected /\ OneAtATime /\ EvSend(view)
    \/ WhenConnected /\ OneAtATime /\ EvCodeSend
    \/ EvPending
    \/ \E msg \in ValueMsgs(FirstId) : next_id > FirstId /\ ServerReply(msg)
    \/ ReadLoopMsg
    \/ \E n \in 1 .. MaxPhases : caller.pc = "idle" /\ SettingsChange(n)
    \/ \E i \in 1 .. MaxTickers : TkTop(i)
    \/ \E i \in 1 .. MaxTickers : TkSee(i)
    \/ \E i \in 1 .. MaxTickers, id \in RecordIds : TkArg(i, id)
    \/ \E i \in 1 .. MaxTickers : TkDraw(i)
    \/ \E i \in 1 .. MaxTickers : TkDecide(i)

SpecOutcome == Init /\ [][NextOutcome]_vars

\* ------------------------------------------------------------ JVM handshake
\* The JVM connection and a server that may send any response of the
\* handshake; faithful tells whether it has kept to one answer per request.
NextJvm == \E msg \in JvmMsgs : JvmReceive(msg)

SpecJvm == Init /\ [][NextJvm]_vars

\* ---------------------------------------------------------------- interrupts
\* One evaluation, the interrupt command and the discards of the editor's
\* thread, the reader thread on the responses of the record, and the ticker
\* between its test, the read of its argument and its update.
NextInterrupt ==
    \/ Connect(CLOJURE, "none")
    \/ ReadLoopStart
    \/ \E msg \in HandshakeMsgs : HandshakeReply(msg)
    \/ \E view \in Views : WhenConnected /\ OneAtATime /\ EvalCmd(view, {})
    \/ \E view \in Views : InterruptCmd(view)
    \/ \E view \in Views : ClearEvalsCmd(view)
    \/ \E view \in Views, id \in RecordIds : EraseCmd(view, {id})
    \/ next_id > FirstId /\ ServerReply([Msg0 EXCEPT !.id = FirstId, !.new_session = Str("s2")])
    \/ next_id > FirstId /\ ServerReply([Msg0 EXCEPT !.id = FirstId, !.value = Str("3")])
    \/ next_id > FirstId /\ ServerReply([Msg0 EXCEPT !.id = FirstId, !.status = {"done"}])
    \/ ReadLoopMsg
    \/ \E n \in 1 .. MaxPhases : SettingsChange(n)
    \/ \E i \in 1 .. MaxTickers : TkTop(i)
    \/ \E i \in 1 .. MaxTickers : TkSee(i)
    \/ \E i \in 1 .. MaxTickers, id \in RecordIds : TkArg(i, id)
    \/ \E i \in 1 .. MaxTickers : TkDraw(i)
    \/ \E i \in 1 .. MaxTickers : TkDecide(i)

SpecInterrupt == Init /\ [][NextInterrupt]_vars

\* ----------------------------------------------------------------- registry
\* The operations of the registry in any order, on a connection that is down,
\* connecting or up, with records of a view and of the status bar.
NextRegistry ==
    \/ Connect(CLOJURE, "none")
    \/ ReadLoopStart
    \/ \E msg \in HandshakeMsgs : HandshakeReply(msg)
    \/ \E view \in Views \cup {NoView} : RegAdd(view)
    \/ \E id \in FirstId .. (FirstId + MaxAdded - 1) : RegErase(id)
    \/ \E ids \in SUBSET (FirstId .. (FirstId + MaxAdded - 1)) : RegEraseEvals(ids)
    \/ RegReset
    \/ RegDisconnect

SpecRegistry == Init /\ [][NextRegistry]_vars

\* ------------------------------------------------------------------- phases
\* One evaluation and the ticker redrawing it while the settings change, with
\* update_phases taken statement by statement on the editor's thread.
NextPhases ==
    \/ Connect(CLOJURE, "none")
    \/ ReadLoopStart
    \/ \E msg \in HandshakeMsgs : HandshakeReply(msg)
    \/ \E view \in Views : WhenConnected /\ OneAtATime /\ ~prog.up /\ EvalCmd(view, {})
    \/ \E n \in 1 .. MaxPhases : UpPhases(n)
    \/ UpRest
    \/ \E i \in 1 .. MaxTickers : TkTop(i)
    \/ \E i \in 1 .. MaxTickers : TkSee(i)
    \/ \E i \in 1 .. MaxTickers, id \in RecordIds : TkArg(i, id)
    \/ \E i \in 1 .. MaxTickers : TkDraw(i)
    \/ \E i \in 1 .. MaxTickers : TkDecide(i)

SpecPhases == Init /\ [][NextPhases]_vars

\* ------------------------------------------------------------------ claims
\* a request that carries the identifier of a record of the registry
IsRecordReq(r) == r.id >= FirstId

\* C1: a request that carries a registry identifier (eval, clone-eval-close,
\* load-file of a buffer, lookup) is written only by a step taken while the
\* connected status is published.
C1_EvalOnlyWhenConnected ==
    [][\A i \in 1 .. Len(conn'.out) :
          IsRecordReq(conn'.out[i]) => conn.status = StatusConnected]_vars

\* the handshake requests of the default profile, in order, under session s
DefaultHandshake(shared, s) ==
    <<Req("clone", 1, None, None, 0),
      Req("load-file", 2, s, MiddlewareSource, 0),
      Req("add-middleware", IF shared # None THEN 3 ELSE 4, s, None, 0)>>
    \o (IF shared # None THEN <<Req("eval", 4, s, shared, 0)>> ELSE <<>>)

\* the handshake requests of the shadow-cljs profile
ShadowHandshake(build, s) ==
    <<Req("clone", 1, None, None, 0),
      Req("eval", 2, s, get_shadow_repl_init_cmd(build), 0)>>

\* the first n elements of a sequence
Prefix(seq, n) == SubSeq(seq, 1, IF n < Len(seq) THEN n ELSE Len(seq))

\* the read loop is past its clone request, on a socket still open, and the
\* server has sent nothing under a handshake identifier but expected answers
FaithfulServer == conn.socket # 0 /\ reader # "start" /\ server.stray = 0

\* C2: default profile, every handshake request answered once with its expected
\* response: the requests written under handshake identifiers are, after k
\* answers, exactly the first k + 1 of clone 1, load-file 2, add-middleware
\* (3 with shared init code, else 4) and, with shared init code, eval 4 of that
\* code; the connected status is published exactly when all are answered.
C2_DefaultHandshakeOrder ==
    (FaithfulServer /\ conn.profile = CLOJURE) =>
        LET E == DefaultHandshake(eval_shared, conn.session)
            k == Cardinality(server.answered)
        IN /\ conn.hs = Prefix(E, k + 1)
           /\ (conn.status = StatusConnected <=> k = Len(E))

C2_Witness ==
    /\ FaithfulServer /\ conn.profile = CLOJURE
    /\ eval_shared # None
    /\ conn.status = StatusConnected
    /\ Len(conn.hs) = 4

\* C3: shadow-cljs profile: with expected answers the requests written under
\* handshake identifiers are clone 1 then eval 2 of the REPL-initialisation
\* expression and the connected status is published exactly on the done of 2;
\* whatever the responses, the handshake writes no load-file or add-middleware.
C3_ShadowHandshake ==
    (conn.socket # 0 /\ conn.profile = SHADOW_CLJS) =>
        /\ \A i \in 1 .. Len(conn.hs) :
              conn.hs[i].op \notin {"load-file", "add-middleware"}
        /\ FaithfulServer =>
              LET E == ShadowHandshake(conn.cljs_build, conn.session)
                  k == Cardinality(server.answered)
              IN /\ conn.hs = Prefix(E, k + 1)
                 /\ (conn.status = StatusConnected <=> k = 2)

C3_Witness ==
    /\ FaithfulServer /\ conn.profile = SHADOW_CLJS
    /\ conn.status = StatusConnected
    /\ conn.hs = ShadowHandshake(":app", Str("s1"))

\* the interrupt requests for record id among the requests out
InterruptsFor(out, id) ==
    {i \in 1 .. Len(out) : out[i].op = "interrupt" /\ out[i].interrupt_id = id}

\* the requests among out that name record id at all
RequestsFor(out, id) ==
    {i \in 1 .. Len(out) : out[i].id = id \/ out[i].interrupt_id = id}

\* the records a step discards with erase_eval (the connection stays up)
Discarded == IF conn'.socket = 0 THEN {} ELSE DOMAIN conn.evals \ DOMAIN conn'.evals

\* C4: a step that discards a record which is pending under a non-empty session
\* writes exactly one interrupt request for it, carrying the record's id and
\* session; a step that discards a succeeded or failed record writes no request
\* naming it.
C4_InterruptOnDiscard ==
    [][\A id \in Discarded :
          LET e == conn.evals[id]
          IN /\ (e.status = "pending" /\ Truthy(e.session)) =>
                   /\ Cardinality(InterruptsFor(conn'.out, id)) = 1
                   /\ \A i \in InterruptsFor(conn'.out, id) :
                         conn'.out[i].session = e.session
             /\ e.status \in {"success", "exception"} =>
                   RequestsFor(conn'.out, id) = {}]_vars

\* a pending record with a session has been discarded and its interrupt written
C4_Witness ==
    \E i \in 1 .. Len(conn.out) :
        /\ conn.out[i].op = "interrupt"
        /\ conn.out[i].session = Str("s2")
        /\ conn.out[i].interrupt_id \notin DOMAIN conn.evals

\* the step of the read loop that routes the response at the head of the stream
Routed == wire # <<>> /\ wire' = <<>>

\* that response names a record the registry holds
RoutedKnown == Routed /\ Head(wire).id \in DOMAIN conn.evals

\* the response {id, value, status: [done]}, with or without an elapsed time
IsValueDone(m) ==
    /\ m.value # None
    /\ m = [Msg0 EXCEPT !.id = m.id, !.value = m.value, !.status = {"done"},
                        !.time_taken = m.time_taken]

\* C5 (as the code has it): after the handshake, routing {id: N, value: v,
\* status: [done]} for a record N of the registry marks the record succeeded
\* with value v and the elapsed time of the message (absent when the message
\* carries none), and the record stays in the registry.
C5_ValueMarksSucceeded ==
    [][(RoutedKnown /\ conn.status = StatusConnected /\ IsValueDone(Head(wire))) =>
          LET m == Head(wire)
          IN /\ m.id \in DOMAIN conn'.evals
             /\ conn'.evals[m.id].status = "success"
             /\ conn'.evals[m.id].value = m.value
             /\ conn'.evals[m.id].time_taken = m.time_taken]_vars

\* a record marked succeeded with the value "3" and no elapsed time is in the
\* registry of a connected connection, its response routed
C5_Witness ==
    /\ conn.status = StatusConnected
    /\ wire = <<>>
    /\ \E id \in DOMAIN conn.evals :
          /\ conn.evals[id].status = "success"
          /\ conn.evals[id].value = Str("3")
          /\ conn.evals[id].time_taken = 0

\* C5 as stated: routing {id: N, value: v, status: [done]} removes record N
\* from the registry.
C5_RecordRemoved ==
    [][(RoutedKnown /\ conn.status = StatusConnected /\ IsValueDone(Head(wire))) =>
          Head(wire).id \notin DOMAIN conn'.evals]_vars

\* the text of case (a): class, message, extra data when there is some, and
\* the source location when the message has one and the record has no view
\* to show it in
StructuredText(m, e) ==
    m.root_ex_class \o <<": ">> \o m.root_ex_msg
    \o (IF m.root_ex_data \notin {None, EmptyStr}
        THEN <<" ">> \o m.root_ex_data ELSE <<>>)
    \o (IF m.loc /\ e.view = NoView /\ m.source \notin {None, EmptyStr}
        THEN <<" (">> \o m.source \o <<":line:column)">> ELSE <<>>)

\* a response that reaches the exception handler alone: no new-session, no
\* value, no info
IsExceptionOnly(m) == m.new_session = None /\ m.value = None /\ m.info = None

\* the record of response m is failed with this text and this trace
FailedWith(m, text, trace) ==
    /\ m.id \in DOMAIN conn'.evals
    /\ conn'.evals[m.id].status = "exception"
    /\ conn'.evals[m.id].value = text
    /\ conn'.evals[m.id].trace = trace

\* the first of the cases (a) to (d) that applies to m, and no other, has
\* marked the record; structured says when case (a) applies, named when (d)
FirstCase(m, structured, named) ==
    LET e == conn.evals[m.id]
    IN IF structured THEN FailedWith(m, StructuredText(m, e), m.trace)
       ELSE IF m.root_ex # None THEN FailedWith(m, m.root_ex, e.trace)
       ELSE IF m.ex # None THEN FailedWith(m, m.ex, e.trace)
       ELSE IF "namespace-not-found" \in m.status /\ named
       THEN FailedWith(m, <<"Namespace not found: ">> \o m.ns, e.trace)
       ELSE IF "namespace-not-found" \in m.status
       THEN reader' = "dead" /\ conn'.evals = conn.evals
       ELSE m.id \in DOMAIN conn'.evals => conn'.evals[m.id] = e

\* C6 (as the code has it): for a response with a known id that reaches the
\* exception handler, exactly the first applicable case marks the record:
\* (a) class and message both present and non-empty: "<class>: <msg>" with
\* extra data and source location, the trace attached; (b) else root-ex,
\* verbatim; (c) else ex, verbatim; (d) else namespace-not-found with ns
\* present: the synthesized text naming ns.  Namespace-not-found without ns
\* raises in the read loop and marks nothing.
C6_FirstCaseWins ==
    [][(RoutedKnown /\ IsExceptionOnly(Head(wire))) =>
          LET m == Head(wire)
          IN FirstCase(m, Truthy(m.root_ex_class) /\ Truthy(m.root_ex_msg),
                       m.ns # None)]_vars

\* a record without a view failed by case (a) with every part of the text,
\* the trace attached
C6_Witness ==
    /\ wire = <<>>
    /\ \E id \in DOMAIN conn.evals :
          /\ conn.evals[id].status = "exception"
          /\ conn.evals[id].value =
                <<"X", ": ", "m", " ", "d", " (", "f", ":line:column)">>
          /\ conn.evals[id].trace = Str("t")

\* C6 as stated: case (a) applies when class and message are both present,
\* case (d) whenever the status contains namespace-not-found.
C6_PresentFieldsWin ==
    [][(RoutedKnown /\ IsExceptionOnly(Head(wire))) =>
          LET m == Head(wire)
          IN FirstCase(m, m.root_ex_class # None /\ m.root_ex_msg # None,
                       TRUE)]_vars

\* the response carries what the exception handler classifies
IsException(m) ==
    \/ Truthy(m.root_ex_class) /\ Truthy(m.root_ex_msg)
    \/ m.root_ex # None
    \/ m.ex # None
    \/ "namespace-not-found" \in m.status

\* C7: a response with a known id, routed without an error, is processed by
\* the first handler, in the order new-session, value, exception, lookup,
\* done, whose key it carries, and by no other: new-session only sets the
\* session, a value ends as succeeded, an exception as failed, info as a
\* lookup, done discards a record neither succeeded nor failed.
C7_FirstHandlerOnly ==
    [][(RoutedKnown /\ reader' # "dead") =>
          LET m == Head(wire)
              e == conn.evals[m.id]
              kept == m.id \in DOMAIN conn'.evals
          IN IF m.new_session # None
             THEN kept /\ conn'.evals[m.id] = [e EXCEPT !.session = m.new_session]
             ELSE IF m.value # None
             THEN kept /\ conn'.evals[m.id] =
                     update(e, "success",
                            m.value \o (IF "value" \in m.truncated
                                        THEN <<"...">> ELSE <<>>),
                            m.time_taken)
             ELSE IF IsException(m)
             THEN kept /\ conn'.evals[m.id].status = "exception"
             ELSE IF m.info # None
             THEN kept /\ conn'.evals[m.id].status = "lookup"
             ELSE IF "done" \in m.status /\ e.status \notin {"success", "exception"}
             THEN ~kept
             ELSE kept /\ conn'.evals[m.id] = e]_vars

\* C8: the identifiers assigned by the constructors, in assignment order, are
\* strictly increasing, so no two records share one.
C8_IdsIncrease ==
    \A i, j \in 1 .. Len(created) : i < j => created[i] < created[j]

\* C9: a step of the reader thread on a response whose identifier is not, or
\* no longer, in the registry changes no record, writes no request, leaves
\* the session as it is and raises nothing in the read loop.
C9_AbsentIdIsNoOp ==
    [][(rd' # rd /\ rd'.msg.id \notin DOMAIN conn.evals) =>
          /\ conn'.evals = conn.evals
          /\ caller' = caller
          /\ ~rd'.stale
          /\ conn'.out = <<>>
          /\ conn'.session = conn.session
          /\ reader' = reader]_vars

\* C10: with the socket closed the session is empty and both indexes of the
\* registry are empty, in every state another thread can see, and no
\* statement of disconnect() writes a request.
C10_DisconnectAtomic ==
    [][/\ conn'.socket # 1 =>
             /\ conn'.session = None
             /\ DOMAIN conn'.evals = {}
             /\ \A v \in Views : conn'.evals_by_view[v] = {}
       /\ (caller.pc # caller'.pc /\ conn'.socket # 1) => conn'.out = <<>>]_vars

\* the connection is disconnected: no socket, no session, no record
Disconnected(c) ==
    /\ c.socket = 0
    /\ c.session = None
    /\ DOMAIN c.evals = {}
    /\ \A v \in Views : c.evals_by_view[v] = {}

\* C11: whenever the read loop stops consuming responses (end of stream,
\* socket error, or an error raised while a response is handled), the teardown
\* has run: the step that ends the loop leaves the connection disconnected.
C11_TeardownWhenLoopStops ==
    [][(reader = "loop" /\ reader' # "loop") => Disconnected(conn')]_vars

\* C12: the pieces of one encoded request are written to the socket one after
\* the other: between two pieces of a request no piece of another request is
\* written, whichever threads are sending.
C12_SendContiguous ==
    \A i, j, k \in DOMAIN sock :
        (i < j /\ j < k /\ sock[i].id = sock[k].id) => sock[j].id = sock[i].id

\* thread i of the ticker takes the step from one position of run_loop to another
TkStep(i, from, to) ==
    /\ i \in DOMAIN prog.threads
    /\ prog.threads[i].pc = from
    /\ prog'.threads[i].pc = to

\* thread i leaves the position
TkLeaves(i, from) ==
    /\ i \in DOMAIN prog.threads
    /\ prog.threads[i].pc = from
    /\ prog'.threads[i].pc # from

\* C13: on each wake of the ticker the current phase label is republished to
\* every record that is pending in the active view, and to no other record; if
\* there was such a record the phase index then advances by one modulo the
\* number of phases, and if there was none the index is unchanged and the
\* thread blocks on the wait condition.
C13_TickRepublishes ==
    [][\A i \in 1 .. MaxTickers :
        /\ TkStep(i, "scan", "decide") =>
              /\ DOMAIN conn'.evals = DOMAIN conn.evals
              /\ \A id \in DOMAIN conn.evals :
                    IF id \in PendingIn(conn, active_view)
                    THEN /\ conn'.evals[id].status = "pending"
                         /\ conn'.evals[id].value = phase_of(prog)
                    ELSE conn'.evals[id] = conn.evals[id]
              /\ prog'.threads[i].updated = (PendingIn(conn, active_view) # {})
              /\ prog'.phase_idx = prog.phase_idx
        /\ TkLeaves(i, "decide") =>
              IF prog.threads[i].updated
              THEN /\ prog'.phase_idx = (prog.phase_idx + 1) % prog.phases
                   /\ prog'.threads[i].pc = "top"
              ELSE /\ prog'.phase_idx = prog.phase_idx
                   /\ prog'.threads[i].pc = "wait"]_vars

\* a second tick has drawn the second phase label on a pending record
C13_Witness ==
    /\ prog.phase_idx = 1
    /\ \E i \in DOMAIN prog.threads :
          prog.threads[i].pc = "decide" /\ prog.threads[i].updated
    /\ \E id \in PendingIn(conn, active_view) : conn.evals[id].value = phase_of(prog)

\* C13 as stated: whenever a record of the registry is pending, in a view or in
\* the status bar, the wake of the ticker republishes the label to every pending
\* record and goes on to advance the index.
C13_AnyPendingTicks ==
    [][\A i \in 1 .. MaxTickers :
        (TkStep(i, "scan", "decide")
            /\ \E id \in DOMAIN conn.evals : conn.evals[id].status = "pending")
        => /\ prog'.threads[i].updated
           /\ \A id \in DOMAIN conn.evals :
                 conn.evals[id].status = "pending"
                    => conn'.evals[id].value = phase_of(prog)]_vars

\* C14: the wake() issued for a new record is never lost: while the ticker is
\* running, none of its threads is blocked on the wait condition while a
\* record of the active view is pending.
C14_NoLostWake ==
    \A i \in DOMAIN prog.threads :
        (prog.running /\ prog.threads[i].pc = "wait")
            => PendingIn(conn, active_view) = {}

\* C15: once stop() has been called, and until the ticker is started again, no
\* ticker thread publishes a further phase update and none blocks again on the
\* wait condition.
C15_QuietAfterStop ==
    [][\A i \in 1 .. MaxTickers :
        ~prog.running =>
            /\ TkStep(i, "scan", "decide") => conn'.evals = conn.evals
            /\ ~TkStep(i, "decide", "wait")]_vars

\* C16: a connect() whose socket cannot be established leaves the connection
\* disconnected: no socket, no session token, the status cleared, no record, no
\* request written, and the reader thread neither started nor running; the
\* call is the one attempt made.
C16_FailedConnectStaysDisconnected ==
    [][(connects' # connects /\ conn'.socket = 0) =>
          /\ connects' = connects + 1
          /\ Disconnected(conn')
          /\ conn'.status = None
          /\ conn'.out = <<>>
          /\ conn'.hs = conn.hs
          /\ reader' = reader
          /\ reader' \notin {"start", "loop"}
          /\ wire' = wire]_vars

\* a connect() has failed: one attempt made, nothing written, no reader thread
C16_Witness ==
    /\ connects = 1
    /\ conn.socket = 0
    /\ conn.status = None
    /\ conn.hs = <<>>
    /\ reader = "none"
    /\ server = Server0

\* the requests a step writes to the socket
WrittenNow == IF conn' = conn THEN <<>> ELSE conn'.out

\* C17: the identifiers of the requests for records (evaluations, lookups) are
\* taken from the counter of the process: each is the counter's value, which
\* the step advances past it, so it exceeds every identifier issued before,
\* across connect, disconnect and reconnect.  The handshake requests carry the
\* fixed identifiers of their steps, all below the first identifier of a
\* record, and every connection starts again with the clone request 1.
C17_RecordIdsIncrease ==
    [][/\ next_id' \in {next_id, next_id + 1}
       /\ \A k \in DOMAIN WrittenNow :
             LET r == WrittenNow[k]
             IN /\ IsRecordReq(r) => (r.id = next_id /\ next_id' = r.id + 1)
                /\ (r.id > 0 /\ ~IsRecordReq(r)) =>
                      /\ r.id \in 1 .. 4
                      /\ r.op = "clone" <=> r.id = 1
                      /\ \A j \in DOMAIN conn.hs : conn.hs[j].id <= r.id
       /\ (conn.hs = <<>> /\ conn'.hs # <<>>) => conn'.hs[1].id = 1
       /\ \A id \in DOMAIN conn'.evals : id < next_id']_vars

\* the second connection has completed its handshake after a record was created
C17_Witness ==
    /\ connects = 2
    /\ next_id > FirstId
    /\ conn.status = StatusConnected
    /\ Len(conn.hs) >= 3

\* C17 as stated: every request that carries an identifier carries one greater
\* than every identifier issued before it: those of the records created so far
\* and those of the handshake requests written so far.
C17_AllIdsIncrease ==
    [][\A k \in DOMAIN WrittenNow :
          LET r == WrittenNow[k]
          IN r.id > 0 =>
                /\ \A i \in FirstId .. next_id - 1 : i < r.id
                /\ \A j \in DOMAIN conn.hs : conn.hs[j].id < r.id]_vars

\* the handshake waits for the answer to the request it wrote last
AtStep(msg) ==
    /\ conn.hs # <<>>
    /\ conn.hs[Len(conn.hs)].id = msg.id
    /\ msg.id \notin server.answered

\* the handshake requests among the requests a step writes
HandshakeWrites == {k \in DOMAIN WrittenNow : WrittenNow[k].id \in 1 .. FirstId - 1}

\* C18: default profile; a response with the id of the step the handshake is
\* at (after the clone) and a status that contains done, alone or with other
\* markers, makes the handshake advance: the next request is written, or, at
\* the last step, the connected status is published.
C18_DoneAdvances ==
    [][(Routed /\ conn.profile = CLOJURE /\ AtStep(Head(wire)) /\ Head(wire).id >= 2
            /\ "done" \in Head(wire).status)
        => \/ HandshakeWrites # {}
           \/ conn'.status = StatusConnected]_vars

\* C19: a handshake-shaped response that arrives while the handshake is not at
\* its step writes no handshake request, leaves the session token and leaves
\* the published status.
C19_UnexpectedIgnored ==
    [][(Routed /\ Head(wire).id \in 1 .. FirstId - 1 /\ ~AtStep(Head(wire)))
        => /\ HandshakeWrites = {}
           /\ conn'.session = conn.session
           /\ conn'.status = conn.status]_vars

\* C20: a response with a done status never removes the record of its id when
\* an outcome has been recorded for it: a record that is succeeded, failed or
\* lookup-complete when the response is routed is still in the registry after.
C20_DoneKeepsOutcome ==
    [][(RoutedKnown /\ "done" \in Head(wire).status
            /\ conn.evals[Head(wire).id].status \in {"success", "exception", "lookup"})
        => Head(wire).id \in DOMAIN conn'.evals]_vars

Unread(r) == Slice(r.buffer, IF r.pos < 0 THEN 0 ELSE r.pos, Len(r.buffer))

\* C23: the results of the reads, one after the other, followed by what is
\* left in the buffer, are the bytes received, each once and in order; a
\* result holds at most n bytes, and it is empty only when the read called
\* recv and recv returned the empty chunk.
C23_ReadExact ==
    /\ io.got \o Unread(io) = Chunk(0, io.recvd)
    /\ Len(io.result) <= io.n
    /\ (io.n > 0 /\ io.result = <<>>) => (io.refilled /\ io.eof /\ io.buffer = <<>>)

\* reads of different sizes have crossed a chunk boundary and reached the end
\* of the stream
C23_Witness ==
    /\ io.eof
    /\ io.recvd = MaxBytes
    /\ io.got = Chunk(0, MaxBytes)
    /\ io.result = <<>>

\* the threads that are inside run_loop
AliveTickers == {i \in DOMAIN prog.threads : prog.threads[i].pc # "done"}

\* C24: at most one thread is inside run_loop at any time.
C24_OneTickerLoop == Cardinality(AliveTickers) <= 1

\* C25: a step of the command thread or of the ticker (one that leaves the
\* stream alone) keeps the outcome of every record the reader has marked as
\* succeeded: its status stays success and its value stays the value recorded.
C25_OutcomeKept ==
    [][wire' = wire =>
         \A id \in DOMAIN conn.evals \cap DOMAIN conn'.evals :
            conn.evals[id].status = "success"
               => /\ conn'.evals[id].status = "success"
                  /\ conn'.evals[id].value = conn.evals[id].value]_vars

\* C26: the exit of the read loop of the connection a reconnect has replaced
\* leaves the socket, the session token and the registry of the new
\* connection as they are.
C26_OldReaderExitHarmless ==
    [][(old = "loop" /\ old' = "none")
          => /\ conn'.socket = conn.socket
             /\ conn'.session = conn.session
             /\ conn'.evals = conn.evals
             /\ conn'.status = conn.status]_vars

\* the requests of the JVM handshake after the clone response, in order
JvmOrder(shared, session) ==
    <<Req("load-file", 2, session, Str("exception.clj"), 0),
      Req("load-file", 3, session, Str("middleware.clj"), 0),
      Req("add-middleware", IF Truthy(shared) THEN 4 ELSE 5, session, None, 0)>>
    \o (IF Truthy(shared) THEN <<Req("eval", 5, session, shared, 0)>> ELSE <<>>)

\* the sequence a begins the sequence b
Begins(a, b) == Len(a) <= Len(b) /\ a = SubSeq(b, 1, Len(a))

\* C27: in the JVM connection, while the server answers every request once,
\* the requests written are a prefix of load-file 2, load-file 3,
\* add-middleware (4 with eval_shared, else 5) and, with eval_shared only,
\* eval 5 of the shared code; whatever the server sends, the connected status
\* (phase 4) is set only on a done response with id 5 and the session token
\* changes only on an id 1 response, to its new-session.
C27_JvmHandshake ==
    [][/\ jvm'.faithful => Begins(jvm'.out, JvmOrder(eval_shared, jvm'.session))
       /\ (jvm'.status # jvm.status /\ jvm'.status.phase = 4)
             => (jvm'.msg.id = 5 /\ "done" \in jvm'.msg.status)
       /\ jvm'.session # jvm.session
             => (jvm'.msg.id = 1 /\ jvm'.msg.new_session = jvm'.session)]_vars

\* the handshake with eval_shared has run to the connected status
C27_Witness ==
    /\ jvm.faithful
    /\ Truthy(eval_shared)
    /\ jvm.status = JvmStatus(4, Str("addr"))
    /\ jvm.out = JvmOrder(eval_shared, Str("s1"))
    /\ jvm.answered = 1 .. 5

\* C28: a step writes at most one interrupt request for a record, and none
\* for a record an interrupt request has been written for before.
C28_OneInterrupt ==
    [][\A id \in RecordIds :
          LET n == Cardinality(InterruptsFor(WrittenNow, id))
          IN n <= 1 /\ (n = 1 => id \notin conn.ints)]_vars

\* C29: the two indexes of the registry agree: a record of a view is in evals
\* under its identifier exactly when the identifier is in the index of that
\* view, and in the index of no other view; every record is held under its
\* own identifier; a record of the status bar is in evals only.
C29_IndexesAgree ==
    /\ \A id \in DOMAIN conn.evals :
          LET e == conn.evals[id]
          IN /\ e.id = id
             /\ \A v \in Views : id \in conn.evals_by_view[v] <=> e.view = v
    /\ \A v \in Views : conn.evals_by_view[v] \subseteq DOMAIN conn.evals

\* a record of a view and a record of the status bar are held after a third
\* record has been erased
C29_Witness ==
    /\ next_id = FirstId + MaxAdded
    /\ Cardinality(DOMAIN conn.evals) = 2
    /\ \E id \in DOMAIN conn.evals : conn.evals[id].view = NoView
    /\ \E id \in DOMAIN conn.evals : conn.evals[id].view \in Views

\* a step in which a ticker thread calls self.phase()
PhaseEvaluated ==
    \E i \in DOMAIN prog.threads :
        prog.threads[i].pc = "call" /\ prog'.threads[i].pc # "call"

\* C30: when a thread evaluates the phase label, the index is within the
\* list of phases: 0 <= phase_idx < len(phases).
C30_PhaseIndexInRange ==
    [][PhaseEvaluated => (0 <= prog.phase_idx /\ prog.phase_idx < prog.phases)]_vars

====
